---- MODULE Spec2Model ----
(***************************************************************************)
(* A verification model of the Bangladesh disaster risk simulation:        *)
(* hazard event generation, exposure evolution, damage and casualty        *)
(* calculation, recovery trajectories and the yearly orchestration loops.  *)
(*                                                                         *)
(* Real numbers of the Python source are held in fixed point: a real r is  *)
(* the integer floor(r * SC), SC = 10^6.  Products and quotients truncate  *)
(* to 6 decimals; logarithms, exponentials and powers are computed by      *)
(* series to about 5 decimals.                                             *)
(***************************************************************************)
EXTENDS Integers, Sequences, FiniteSets, TLC

VARIABLES gen, expo, dmg, rec, run, orch, repro, clim, warn, resp

vars == <<gen, expo, dmg, rec, run, orch, repro, clim, warn, resp>>

(***************************************************************************)
(* Fixed-point arithmetic                                                  *)
(***************************************************************************)
SC == 1000 * 1000

Abs(a) == IF a < 0 THEN -a ELSE a

Min(a, b) == IF a <= b THEN a ELSE b

Max(a, b) == IF a >= b THEN a ELSE b

\* floor(a * b / SC) for a, b >= 0, exact, without leaving 32 bits
MulN(a, b) ==
  LET ah == a \div 1000
      al == a % 1000
      bh == b \div 1000
      bl == b % 1000
  IN  ah * bh + (ah * bl + al * bh + (al * bl) \div 1000) \div 1000

Mul(a, b) ==
  IF (a < 0) # (b < 0) THEN -MulN(Abs(a), Abs(b)) ELSE MulN(Abs(a), Abs(b))

\* floor(a * SC / b) for a >= 0 and 0 < b <= 2 * SC
DivN(a, b) ==
  LET q  == a \div b
      r  == a % b
      d1 == (r * 1000) \div b
      r1 == (r * 1000) % b
      d2 == (r1 * 1000) \div b
  IN  q * SC + d1 * 1000 + d2

RECURSIVE ExpSeries(_, _, _, _)
ExpSeries(r, n, term, acc) ==
  IF n > 12 THEN acc
  ELSE LET t == Mul(term, r) \div n
       IN  ExpSeries(r, n + 1, t, acc + t)

RECURSIVE Pow2(_)
Pow2(k) == IF k <= 0 THEN 1 ELSE 2 * Pow2(k - 1)

\* e^y for a fixed-point y: y = k ln 2 + r, 0 <= r < ln 2, e^y = 2^k e^r
Exp(y) ==
  LET ln2 == 693147
      k   == y \div ln2
      r   == y % ln2
      er  == ExpSeries(r, 1, SC, SC)
  IN  IF k >= 0 THEN er * Pow2(k) ELSE er \div Pow2(-k)

RECURSIVE LnNorm(_, _)
LnNorm(m, k) ==
  IF m >= 2 * SC THEN LnNorm(m \div 2, k + 1)
  ELSE IF m < SC THEN LnNorm(m * 2, k - 1)
  ELSE <<m, k>>

RECURSIVE AtanhSeries(_, _, _, _)
AtanhSeries(z2, n, zpow, acc) ==
  IF n > 17 THEN acc
  ELSE LET p == Mul(zpow, z2)
       IN  AtanhSeries(z2, n + 2, p, acc + p \div n)

\* ln x for a fixed-point x > 0: x = 2^k m, 1 <= m < 2,
\* ln m = 2 atanh((m - 1) / (m + 1))
Ln(x) ==
  LET ln2 == 693147
      mk  == LnNorm(x, 0)
      m   == mk[1]
      k   == mk[2]
      z   == DivN((m - SC) \div 2, (m + SC) \div 2)
      s   == AtanhSeries(Mul(z, z), 3, z, z)
  IN  2 * s + k * ln2

\* x ^ p for fixed-point x >= 0 and p > 0
Pow(x, p) == IF x = 0 THEN 0 ELSE Exp(Mul(p, Ln(x)))

\* int(n * r): an integer n times a fixed-point r, truncated toward zero
IntTimes(n, r) == Mul(n, r)

\* x ^ n for a fixed-point x and an integer n >= 0
RECURSIVE PowInt(_, _)
PowInt(x, n) == IF n <= 0 THEN SC ELSE Mul(x, PowInt(x, n - 1))

(***************************************************************************)
(* HazardModel.generate_events                                             *)
(***************************************************************************)
MaxPeriods == 2

HazardTypes == {"flood", "cyclone", "geophysical"}

\* return_periods of a hazard configuration: the prefixes of these lists
BasePeriods == {<<1, 10, 100>>, <<5, 10, 20>>, <<2, 50, 100>>}

ReturnPeriodLists ==
  {SubSeq(b, 1, Min(n, Len(b))) : b \in BasePeriods, n \in 1..MaxPeriods}

\* climate_effects handed to generate_events: None, or the changes as fixed point
ClimateEffects ==
  { [given |-> FALSE, intensity_change |-> 0, frequency_change |-> 0],
    [given |-> TRUE, intensity_change |-> 50000, frequency_change |-> 50000],
    [given |-> TRUE, intensity_change |-> 300000, frequency_change |-> -30000],
    [given |-> TRUE, intensity_change |-> 800000, frequency_change |-> 600000] }

\* outcomes of stats.uniform.rvs(), a value of [0, 1)
Draws == {0, 150000, 999999}

\* outcomes of the month sample (every month has positive probability)
Months == {1, 7}

\* outcomes of the gamma duration samples, and of the track sample
Durations == {2 * SC, 15 * SC}

Tracks == {"west", "northwest", "north"}

Years == {2025, 2030}

SpatialPatternOf(hazard_type) ==
  CASE hazard_type = "flood" -> "riverine"
    [] hazard_type = "cyclone" -> "coastal"
    [] OTHER -> "regional"

SeasonalProfileOf(hazard_type) ==
  CASE hazard_type = "flood" -> "monsoon"
    [] hazard_type = "cyclone" -> "pre_monsoon_post_monsoon"
    [] OTHER -> "uniform"

\* the multipliers generate_events derives from climate_effects
intensity_multiplier(ce) ==
  IF ce.given THEN SC + ce.intensity_change ELSE SC

frequency_multiplier(ce) ==
  IF ce.given THEN SC + ce.frequency_change ELSE SC

\* annual_prob = 1.0 / return_period * frequency_multiplier
annual_prob(return_period, ce) ==
  Mul(SC \div return_period, frequency_multiplier(ce))

\* I = a ln(RP) + b with hazard-specific a, b
intensity_from_return_period(hazard_type, return_period) ==
  LET lnrp == Ln(return_period * SC)
  IN  CASE hazard_type = "flood" -> Mul(800000, lnrp) + SC
        [] hazard_type = "cyclone" -> 15 * lnrp + 120 * SC
        [] OTHER -> Mul(500000, lnrp) + SC

generate_spatial_footprint(spatial_patterns) ==
  CASE spatial_patterns = "riverine" ->
         [type |-> "riverine", affected |-> <<"brahmaputra", "ganges", "meghna">>]
    [] spatial_patterns = "coastal" ->
         [type |-> "coastal", affected |-> <<"chittagong", "khulna", "barisal">>]
    [] OTHER -> [type |-> "generic", affected |-> <<>>]

\* the attributes _add_hazard_specific_attributes attaches; s holds the
\* outcomes of the samples it takes
add_hazard_specific_attributes(hazard_type, month, intensity, s) ==
  CASE hazard_type = "flood" ->
         [flood_type |-> IF month \in {6, 7, 8, 9} THEN "riverine" ELSE "flash",
          duration |-> s.duration,
          depth |-> intensity]
    [] hazard_type = "cyclone" ->
         [wind_speed |-> intensity,
          storm_surge |-> Mul(Mul(50000, intensity), 1200000),
          track_direction |-> s.track,
          rainfall_intensity |-> 10 * Ln(intensity) - 40 * SC,
          duration |-> s.duration]
    [] OTHER -> [none |-> TRUE]

\* the samples one emitted event takes besides its occurrence draw
EventSamples(hazard_type) ==
  CASE hazard_type = "flood" ->
         [month : Months, duration : Durations, track : {"-"}]
    [] hazard_type = "cyclone" ->
         [month : Months, duration : Durations, track : Tracks]
    [] OTHER -> [month : Months, duration : {0}, track : {"-"}]

MakeEvent(g, year, return_period, s) ==
  LET adjusted_intensity ==
        Mul(intensity_from_return_period(g.hazard_type, return_period),
            intensity_multiplier(g.climate_effects))
  IN  [type |-> g.hazard_type,
       year |-> year,
       month |-> s.month,
       return_period |-> return_period,
       intensity |-> adjusted_intensity,
       spatial_footprint |-> generate_spatial_footprint(g.spatial_patterns),
       attrs |-> add_hazard_specific_attributes(g.hazard_type, s.month,
                                                adjusted_intensity, s)]

\* the loop over return_periods from index i on: u[i] is the occurrence
\* draw of return period i, s[i] the samples its event takes if it occurs
RECURSIVE EventsFrom(_, _, _, _, _)
EventsFrom(g, year, u, s, i) ==
  IF i > Len(g.return_periods) THEN <<>>
  ELSE LET rp == g.return_periods[i]
       IN  IF u[i] < annual_prob(rp, g.climate_effects)
           THEN <<MakeEvent(g, year, rp, s[i])>> \o EventsFrom(g, year, u, s, i + 1)
           ELSE EventsFrom(g, year, u, s, i + 1)

GenerateEventsBreak(g, year, u, s) ==
  LET all == EventsFrom(g, year, u, s, 1)
  IN  IF all = <<>> THEN <<>> ELSE <<Head(all)>>

GenerateEvents(g, year, u, s) == EventsFrom(g, year, u, s, 1)

GenInit ==
  \E ht \in HazardTypes, rps \in ReturnPeriodLists, ce \in ClimateEffects :
    gen = [hazard_type |-> ht,
           return_periods |-> rps,
           spatial_patterns |-> SpatialPatternOf(ht),
           seasonal_profile |-> SeasonalProfileOf(ht),
           climate_effects |-> ce,
           called |-> FALSE,
           year |-> 0,
           draws |-> <<>>,
           probs |-> <<>>,
           events |-> <<>>]

\* one call generate_events(year, climate_effects) of a hazard model
generate_events ==
  /\ ~gen.called
  /\ \E year \in Years :
     \E u \in [1..Len(gen.return_periods) -> Draws] :
     \E s \in [1..Len(gen.return_periods) -> EventSamples(gen.hazard_type)] :
        /\ \A i \in 1..Len(gen.return_periods) :
             u[i] >= annual_prob(gen.return_periods[i], gen.climate_effects)
               => s[i] = CHOOSE x \in EventSamples(gen.hazard_type) : TRUE
        /\ gen' = [gen EXCEPT
                     !.called = TRUE,
                     !.year = year,
                     !.draws = u,
                     !.probs = [i \in 1..Len(gen.return_periods) |->
                                  annual_prob(gen.return_periods[i],
                                              gen.climate_effects)],
                     !.events = GenerateEvents(gen, year, u, s)]
  /\ UNCHANGED <<expo, dmg, rec, run, orch, repro, clim, warn, resp>>

Idle == "idle"

HazardInit ==
  /\ GenInit
  /\ expo = Idle /\ dmg = Idle /\ rec = Idle
  /\ run = Idle /\ orch = Idle /\ repro = Idle
  /\ clim = Idle /\ warn = Idle /\ resp = Idle

HazardNext == generate_events

SpecHazard == HazardInit /\ [][HazardNext]_vars

\* C9: every annual occurrence probability generate_events compares with its
\* uniform draw lies in (0, 1], and it is 1 for return_period = 1.
C9_ProbabilityInUnitInterval ==
  gen.called =>
    \A i \in 1..Len(gen.probs) :
      /\ gen.probs[i] > 0
      /\ gen.probs[i] <= SC
      /\ (gen.return_periods[i] = 1 => gen.probs[i] = SC)

\* C10: one call makes one occurrence draw per return period and emits, in
\* order, exactly one event for each return period whose draw is below its
\* probability; each event carries the model's hazard type, the year passed
\* in and that return period.
FiredPeriods ==
  LET n == Len(gen.return_periods)
      RECURSIVE From(_)
      From(i) ==
        IF i > n THEN <<>>
        ELSE IF gen.draws[i] < Mul(SC \div gen.return_periods[i],
                                   frequency_multiplier(gen.climate_effects))
             THEN <<gen.return_periods[i]>> \o From(i + 1)
             ELSE From(i + 1)
  IN  From(1)

C10_OneBernoulliTrialPerPeriod ==
  gen.called =>
    /\ Len(gen.draws) = Len(gen.return_periods)
    /\ Len(gen.events) <= Len(gen.return_periods)
    /\ [i \in 1..Len(gen.events) |-> gen.events[i].return_period] = FiredPeriods
    /\ \A i \in 1..Len(gen.events) :
         /\ gen.events[i].type = gen.hazard_type
         /\ gen.events[i].year = gen.year

\* two return periods of one hazard type fire in the same year while
\* another call's draws let none fire
C10_Witness ==
  /\ gen.called
  /\ Len(gen.return_periods) >= 2
  /\ Len(gen.events) >= 2
  /\ gen.events[1].return_period # gen.events[2].return_period
  /\ gen.events[1].year = gen.events[2].year

(***************************************************************************)
(* ExposureModel: the region stock and its annual update                   *)
(***************************************************************************)
BuildingTypes == {"RCC", "semi_pucca", "kutcha", "jhupri"}

CropTypes ==
  {"rice_area_ha", "wheat_area_ha", "jute_area_ha", "vegetable_area_ha",
   "aquaculture_area_ha"}

SectorTypes == {"agriculture", "industry", "services"}

AdminLevels == {"division", "district", "upazila"}

\* the stock ExposureModel.__init__ sets; total_population is held in
\* thousands of people, areas in hectares, fractions in fixed point
ExposureModelInit(admin_level) ==
  [admin_level |-> admin_level,
   total_population |-> 169000,
   population_growth_rate |-> 10000,
   urban_population_pct |-> 390000,
   admin_divisions |-> [division |-> 8, district |-> 64, upazila |-> 495],
   building_types |->
     [RCC |-> 150000, semi_pucca |-> 250000, kutcha |-> 500000, jhupri |-> 100000],
   critical_facilities |->
     [hospitals |-> 620, primary_schools |-> 65000, secondary_schools |-> 20300,
      power_plants |-> 143, bridges |-> 4700, embankments_km |-> 12000,
      cyclone_shelters |-> 2500, telecom_towers |-> 35000],
   economic_sectors |->
     [agriculture |-> 120000, industry |-> 330000, services |-> 550000],
   agricultural_data |->
     [rice_area_ha |-> 11000000, wheat_area_ha |-> 350000,
      jute_area_ha |-> 700000, vegetable_area_ha |-> 900000,
      aquaculture_area_ha |-> 830000]]

BaseYear == 2025

LastYear == 2050

reduction_rate(crop_type) ==
  IF crop_type = "rice_area_ha" THEN 2000 ELSE 1000

\* rcc_increase = years_passed * 0.003
UpdateRccIncrease(years_passed) == years_passed * 3000

\* ExposureModel.update_exposure(year) applied to the stock e
UpdateExposure(e, year) ==
  LET years_passed == year - BaseYear
      urban_population_increase == years_passed * 5000
      rcc_increase == UpdateRccIncrease(years_passed)
      service_increase == years_passed * 2000
  IN  [e EXCEPT
         !.total_population =
           IntTimes(@, PowInt(SC + e.population_growth_rate, years_passed)),
         !.urban_population_pct = Min(@ + urban_population_increase, 650000),
         !.agricultural_data =
           [c \in DOMAIN @ |->
              IntTimes(@[c], PowInt(SC - reduction_rate(c), years_passed))],
         !.building_types =
           [@ EXCEPT !.RCC = Min(@ + rcc_increase, 350000),
                     !.kutcha = @ - rcc_increase \div 2,
                     !.semi_pucca = @ - rcc_increase \div 2],
         !.critical_facilities =
           [@ EXCEPT !.cyclone_shelters = @ + 50 * years_passed,
                     !.hospitals = @ + 10 * years_passed,
                     !.telecom_towers = @ + 1000 * years_passed],
         !.economic_sectors =
           [@ EXCEPT !.services = Min(@ + service_increase, 650000),
                     !.agriculture = @ - service_increase \div 2,
                     !.industry = @ - service_increase \div 2]]

\* hazard footprints handed to get_exposed_elements
Footprints ==
  {[type |-> "riverine", affected |-> <<"brahmaputra", "ganges", "meghna">>],
   [type |-> "riverine",
    affected |-> <<"brahmaputra", "ganges", "meghna", "teesta">>],
   [type |-> "riverine", affected |-> <<"meghna">>],
   [type |-> "riverine", affected |-> <<>>],
   [type |-> "coastal", affected |-> <<"chittagong", "khulna", "barisal">>],
   [type |-> "coastal",
    affected |-> <<"chittagong", "khulna", "barisal", "noakhali">>],
   [type |-> "coastal", affected |-> <<"khulna">>],
   [type |-> "generic", affected |-> <<>>]}

\* the exposure ratio get_exposed_elements derives from the footprint
exposure_ratio(hazard_footprint) ==
  CASE hazard_footprint.type = "riverine" ->
         Min(Max((Len(hazard_footprint.affected) * SC) \div 3, 100000), 500000)
    [] hazard_footprint.type = "coastal" ->
         Min(Max((Len(hazard_footprint.affected) * SC) \div 3, 100000), 400000)
    [] OTHER -> 100000

\* outcomes of the gamma samples of one admin unit's population and building
\* count, and of the uniform(0.8, 1.2) factor of the facility counts
UnitSamples ==
  {[population |-> 120000, building_count |-> 30000, facility_factor |-> 800000],
   [population |-> 400000, building_count |-> 80000, facility_factor |-> 1199999]}

\* ExposureModel.get_exposed_elements(hazard_footprint) on the stock e; every
\* exposed admin unit is taken to hold the sampled population and buildings
GetExposedElements(e, hazard_footprint, smp) ==
  LET num_units == e.admin_divisions[e.admin_level]
      ratio == exposure_ratio(hazard_footprint)
      num_exposed_units == IntTimes(num_units, ratio)
      total_exposed_buildings == num_exposed_units * smp.building_count
  IN  [population |-> num_exposed_units * smp.population,
       buildings |->
         [b \in BuildingTypes |->
            IntTimes(total_exposed_buildings, e.building_types[b])],
       critical_infrastructure |->
         [f \in DOMAIN e.critical_facilities |->
            IntTimes(e.critical_facilities[f], Mul(ratio, smp.facility_factor))],
       agriculture |->
         [c \in CropTypes |->
            LET crop_exposure_ratio ==
                  IF hazard_footprint.type = "riverine"
                       /\ c = "rice_area_ha"
                  THEN Mul(ratio, 1500000) ELSE ratio
            IN  IntTimes(e.agricultural_data[c], Min(crop_exposure_ratio, 900000))],
       num_exposed_units |-> num_exposed_units,
       exposure_ratio |-> ratio]

\* get_exposed_elements of the models package: facilities at 0.8 of the
\* ratio, rice at 1.2, aquaculture at 1.5 and the other crops at 0.9 of it
GetExposedElementsPackage(e, hazard_footprint, smp) ==
  LET num_units == e.admin_divisions[e.admin_level]
      ratio == exposure_ratio(hazard_footprint)
      num_exposed_units == IntTimes(num_units, ratio)
      total_exposed_buildings == num_exposed_units * smp.building_count
  IN  [population |-> num_exposed_units * smp.population,
       buildings |->
         [b \in BuildingTypes |->
            IntTimes(total_exposed_buildings, e.building_types[b])],
       infrastructure |->
         [f \in DOMAIN e.critical_facilities |->
            IntTimes(e.critical_facilities[f], Mul(ratio, 800000))],
       agriculture |->
         [c \in CropTypes |->
            LET crop_exposure ==
                  CASE c = "rice_area_ha" -> Mul(ratio, 1200000)
                    [] c = "aquaculture_area_ha" -> Mul(ratio, 1500000)
                    [] OTHER -> Mul(ratio, 900000)
            IN  IntTimes(e.agricultural_data[c], crop_exposure)],
       exposure_ratio |-> ratio]

ExpoInit ==
  \E al \in AdminLevels :
    expo = [model |-> ExposureModelInit(al),
            year |-> BaseYear,
            updates |-> 0,
            exposed |-> <<>>]

\* the annual call update_exposure(year), for consecutive years from 2025
update_exposure ==
  /\ expo.year <= LastYear
  /\ expo' = [expo EXCEPT !.model = UpdateExposure(@, expo.year),
                          !.year = @ + 1,
                          !.updates = @ + 1]
  /\ UNCHANGED <<gen, dmg, rec, run, orch, repro, clim, warn, resp>>

\* a call get_exposed_elements(hazard_footprint) on the current stock; its
\* result is kept in exposed
get_exposed_elements ==
  /\ expo.exposed = <<>>
  /\ \E fp \in Footprints, smp \in UnitSamples :
       expo' = [expo EXCEPT
                  !.exposed = <<GetExposedElements(expo.model, fp, smp)>>]
  /\ UNCHANGED <<gen, dmg, rec, run, orch, repro, clim, warn, resp>>

\* the same call on the ExposureModel of the models package, which has no
\* update_exposure: its stock is the constructed one
get_exposed_elements_package ==
  /\ expo.exposed = <<>>
  /\ expo.updates = 0
  /\ \E fp \in Footprints, smp \in UnitSamples :
       expo' = [expo EXCEPT
                  !.exposed = <<GetExposedElementsPackage(expo.model, fp, smp)>>]
  /\ UNCHANGED <<gen, dmg, rec, run, orch, repro, clim, warn, resp>>

ExposureInit ==
  /\ ExpoInit
  /\ gen = Idle /\ dmg = Idle /\ rec = Idle
  /\ run = Idle /\ orch = Idle /\ repro = Idle
  /\ clim = Idle /\ warn = Idle /\ resp = Idle

ExposureNext ==
  update_exposure \/ get_exposed_elements \/ get_exposed_elements_package

SpecExposure == ExposureInit /\ [][ExposureNext]_vars

SumOver(f) ==
  LET RECURSIVE Sum(_)
      Sum(S) == IF S = {} THEN 0
                ELSE LET x == CHOOSE y \in S : TRUE IN f[x] + Sum(S \ {x})
  IN  Sum(DOMAIN f)

\* C2: after any number of annual update_exposure calls for the years
\* 2025, 2026, ... the building-type fractions each lie in [0, 1] and sum
\* to 1, the economic-sector fractions sum to 1, and the population and the
\* agricultural areas are non-negative.
C2_RegionStockPlausible ==
  LET m == expo.model
  IN  /\ \A b \in BuildingTypes :
           m.building_types[b] >= 0 /\ m.building_types[b] <= SC
      /\ SumOver(m.building_types) = SC
      /\ SumOver(m.economic_sectors) = SC
      /\ m.total_population >= 0
      /\ \A c \in CropTypes : m.agricultural_data[c] >= 0

\* the exposure ratio the footprint type allows
RatioInRange(fp, ratio) ==
  CASE fp.type = "riverine" -> ratio >= 100000 /\ ratio <= 500000
    [] fp.type = "coastal" -> ratio >= 100000 /\ ratio <= 400000
    [] OTHER -> ratio = 100000

\* the stock of the whole region behind a result: all admin units hold the
\* sampled population and buildings, split by the building-type fractions
TotalBuildings(e, smp) == e.admin_divisions[e.admin_level] * smp.building_count

TotalPopulation(e, smp) == e.admin_divisions[e.admin_level] * smp.population

\* the calls whose result is the one held in exposed
SingleFileCalls ==
  {c \in Footprints \X UnitSamples :
     expo.exposed = <<GetExposedElements(expo.model, c[1], c[2])>>}

PackageCalls ==
  {c \in Footprints \X UnitSamples :
     expo.exposed = <<GetExposedElementsPackage(expo.model, c[1], c[2])>>}

WithinStock(x, e, smp, facilities) ==
  /\ x.population <= TotalPopulation(e, smp)
  /\ \A b \in BuildingTypes :
       x.buildings[b] <= IntTimes(TotalBuildings(e, smp), e.building_types[b])
  /\ \A f \in DOMAIN e.critical_facilities :
       facilities[f] <= e.critical_facilities[f]
  /\ \A c \in CropTypes : x.agriculture[c] <= e.agricultural_data[c]

\* C17: get_exposed_elements uses an exposure ratio in [0.1, 0.5] for a
\* riverine footprint, in [0.1, 0.4] for a coastal one and exactly 0.1 for a
\* generic one, whatever the number of named sub-regions, and the exposed
\* population, buildings per type, facilities per type and area per crop
\* are each at most the corresponding quantity of the region's stock.
C17_RatioInRangeAndExposedWithinStock ==
  /\ \A c \in SingleFileCalls :
       /\ RatioInRange(c[1], expo.exposed[1].exposure_ratio)
       /\ WithinStock(expo.exposed[1], expo.model, c[2],
                      expo.exposed[1].critical_infrastructure)
  /\ \A c \in PackageCalls :
       /\ RatioInRange(c[1], expo.exposed[1].exposure_ratio)
       /\ WithinStock(expo.exposed[1], expo.model, c[2],
                      expo.exposed[1].infrastructure)

\* the ratio part of C17 alone
C17_RatioInRange ==
  \A c \in SingleFileCalls \cup PackageCalls :
    RatioInRange(c[1], expo.exposed[1].exposure_ratio)

\* a quantity that is the initial one times rate ^ years, up to the
\* rounding of the fixed-point arithmetic (0.01% of the initial quantity)
CompoundedOnce(actual, initial, rate, years) ==
  Abs(actual - IntTimes(initial, PowInt(rate, years))) <= initial \div 10000

\* C26: when update_exposure is called once per simulated year in increasing
\* year order starting from 2025, after the call for year Y the population
\* equals the initial population * (1 + growth rate) ^ (Y - 2025) and each
\* agricultural area equals its initial area * (1 - reduction rate) ^
\* (Y - 2025): each call applies exactly one year of the annual rates.
C26_OneYearOfGrowthPerCall ==
  expo.updates >= 1 =>
    LET initial == ExposureModelInit(expo.model.admin_level)
        years == (expo.year - 1) - BaseYear
    IN  /\ CompoundedOnce(expo.model.total_population,
                          initial.total_population,
                          SC + initial.population_growth_rate, years)
        /\ \A c \in CropTypes :
             CompoundedOnce(expo.model.agricultural_data[c],
                            initial.agricultural_data[c],
                            SC - reduction_rate(c), years)

\* the same up to the call for 2026, the last one for which the exponent
\* years_passed applied to the running value gives one year of growth
C26_HoldsUpTo2026 ==
  (expo.updates >= 1 /\ expo.year - 1 <= BaseYear + 1) =>
    C26_OneYearOfGrowthPerCall

\* after the calls for 2025, 2026 and 2027 the population has grown by
\* 1.01 ^ 3 instead of 1.01 ^ 2
PopulationCompoundedTwice ==
  /\ expo.updates = 3
  /\ expo.year - 1 = BaseYear + 2
  /\ CompoundedOnce(expo.model.total_population, 169000,
                    SC + 10000, 3)

(***************************************************************************)
(* VulnerabilityModel.calculate_damages                                    *)
(***************************************************************************)
\* coef * x ** pw without the clamp to [0, cap]
PowerCurveUnclamped(cap, coef, pw, x) == Mul(coef, Pow(x, pw))

\* min(cap, max(0, coef * x ** pw)): the flood and earthquake curves
PowerCurve(cap, coef, pw, x) == Min(cap, Max(0, Mul(coef, Pow(x, pw))))

\* the wind curve with the excess over the threshold not squared
WindCurveLinear(cap, c4, t, wind) ==
  Min(cap, Max(0, IF wind > t * SC
                  THEN Mul(c4, (wind - t * SC) \div 10000)
                  ELSE 0))

\* min(cap, max(0, c * (wind - t) ** 2 if wind > t else 0)), c = c4 * 0.0001
WindCurve(cap, c4, t, wind) ==
  Min(cap, Max(0, IF wind > t * SC
                  THEN Mul(c4, Mul((wind - t * SC) \div 100, (wind - t * SC) \div 100))
                  ELSE 0))

\* building_vulnerability[hazard_type][building_type]['damage_function']
building_damage_function(hazard_type, building_type, x) ==
  CASE hazard_type = "flood" /\ building_type = "RCC" ->
         PowerCurve(900000, 100000, 1250000, x)
    [] hazard_type = "flood" /\ building_type = "semi_pucca" ->
         PowerCurve(950000, 200000, 1500000, x)
    [] hazard_type = "flood" /\ building_type = "kutcha" ->
         PowerCurve(SC, 300000, 1700000, x)
    [] hazard_type = "flood" /\ building_type = "jhupri" ->
         PowerCurve(SC, 500000, 2 * SC, x)
    [] hazard_type = "cyclone" /\ building_type = "RCC" ->
         WindCurve(900000, SC, 80, x)
    [] hazard_type = "cyclone" /\ building_type = "semi_pucca" ->
         WindCurve(950000, 2 * SC, 60, x)
    [] hazard_type = "cyclone" /\ building_type = "kutcha" ->
         WindCurve(SC, 4 * SC, 40, x)
    [] hazard_type = "cyclone" /\ building_type = "jhupri" ->
         WindCurve(SC, 8 * SC, 30, x)
    [] hazard_type = "earthquake" /\ building_type = "RCC" ->
         PowerCurve(900000, 1500000, 1800000, x)
    [] hazard_type = "earthquake" /\ building_type = "semi_pucca" ->
         PowerCurve(950000, 2 * SC, 1500000, x)
    [] hazard_type = "earthquake" /\ building_type = "kutcha" ->
         PowerCurve(SC, 2500000, 1300000, x)
    [] hazard_type = "earthquake" /\ building_type = "jhupri" ->
         PowerCurve(SC, 3 * SC, 1200000, x)

\* building_vulnerability[hazard_type][building_type]['threshold']
building_threshold(hazard_type, building_type) ==
  CASE hazard_type = "flood" /\ building_type = "RCC" -> 300000
    [] hazard_type = "flood" /\ building_type = "semi_pucca" -> 200000
    [] hazard_type = "flood" /\ building_type = "kutcha" -> 100000
    [] hazard_type = "flood" /\ building_type = "jhupri" -> 50000
    [] hazard_type = "cyclone" /\ building_type = "RCC" -> 80 * SC
    [] hazard_type = "cyclone" /\ building_type = "semi_pucca" -> 60 * SC
    [] hazard_type = "cyclone" /\ building_type = "kutcha" -> 40 * SC
    [] hazard_type = "cyclone" /\ building_type = "jhupri" -> 30 * SC
    [] hazard_type = "earthquake" /\ building_type = "RCC" -> 100000
    [] hazard_type = "earthquake" /\ building_type = "semi_pucca" -> 80000
    [] hazard_type = "earthquake" /\ building_type = "kutcha" -> 50000
    [] hazard_type = "earthquake" /\ building_type = "jhupri" -> 30000

BuildingHazards == {"flood", "cyclone", "earthquake"}

\* the intensity calculate_damages reads from the event
event_intensity(hazard_event) ==
  CASE hazard_event.type = "flood" -> hazard_event.depth
    [] hazard_event.type = "cyclone" -> hazard_event.wind_speed
    [] hazard_event.type = "earthquake" -> hazard_event.magnitude \div 10
    [] OTHER -> hazard_event.intensity

\* step 1: damages['buildings']
building_damages(exposed_elements, hazard_event) ==
  LET ht == hazard_event.type
  IN  [b \in (IF ht \in BuildingHazards THEN BuildingTypes ELSE {}) |->
         LET damage_ratio ==
               building_damage_function(ht, b, event_intensity(hazard_event))
         IN  [count |-> exposed_elements.buildings[b],
              damage_ratio |-> damage_ratio,
              damaged_count |->
                IntTimes(exposed_elements.buildings[b], damage_ratio)]]

\* the fatality, injury and displacement rates of step 2
casualty_rates(hazard_event, overall_damage_ratio) ==
  LET intensity == event_intensity(hazard_event)
  IN  CASE hazard_event.type = "flood" ->
             [fatality |-> 100 + Mul(1000, Mul(intensity, intensity)),
              injury |-> 1000 + Mul(5000, Pow(intensity, 1500000)),
              displacement |-> 10000 + Mul(100000, intensity)]
        [] hazard_event.type = "cyclone" ->
             [fatality |->
                Mul(100, Mul(intensity \div 100, intensity \div 100))
                + (IF "storm_surge" \in DOMAIN hazard_event
                   THEN Mul(1000, Mul(hazard_event.storm_surge,
                                      hazard_event.storm_surge))
                   ELSE 0),
              injury |-> Mul(1000, Pow(intensity \div 80, 1800000)),
              displacement |-> Mul(5000, Pow(intensity \div 60, 1500000))]
        [] hazard_event.type = "earthquake" ->
             [fatality |->
                Mul(Mul(1000, Pow(intensity, 2500000)), overall_damage_ratio),
              injury |->
                Mul(Mul(10000, Mul(intensity, intensity)), overall_damage_ratio),
              displacement |->
                Mul(Mul(50000, Pow(intensity, 1500000)), overall_damage_ratio)]
        [] OTHER ->
             [fatality |-> Mul(Mul(100, intensity), overall_damage_ratio),
              injury |-> Mul(Mul(1000, intensity), overall_damage_ratio),
              displacement |-> Mul(Mul(10000, intensity), overall_damage_ratio)]

\* step 2: damages['casualties']
casualties(exposed_elements, hazard_event, buildings) ==
  LET total_damaged_buildings ==
        SumOver([b \in DOMAIN buildings |-> buildings[b].damaged_count])
      total_buildings == SumOver(exposed_elements.buildings)
  IN  IF total_buildings > 0
      THEN LET overall_damage_ratio ==
                 DivN(total_damaged_buildings, total_buildings)
               r == casualty_rates(hazard_event, overall_damage_ratio)
           IN  [deaths |-> IntTimes(exposed_elements.population, r.fatality),
                injuries |-> IntTimes(exposed_elements.population, r.injury),
                displaced |->
                  IntTimes(exposed_elements.population, r.displacement)]
      ELSE [deaths |-> 0, injuries |-> 0, displaced |-> 0]

\* the vulnerability category of a critical-infrastructure type
infra_vulnerability_key(infra_type) ==
  CASE infra_type = "hospitals" -> "hospitals"
    [] infra_type \in {"primary_schools", "secondary_schools"} -> "schools"
    [] infra_type = "bridges" -> "bridges"
    [] infra_type = "embankments_km" -> "embankments"
    [] infra_type = "power_plants" -> "power_infrastructure"
    [] infra_type = "telecom_towers" -> "telecom"
    [] OTHER -> "None"

\* infrastructure_vulnerability[vulnerability_key][hazard_type]
infrastructure_damage_function(key, hazard_type, x) ==
  CASE hazard_type = "flood" /\ key = "hospitals" ->
         PowerCurve(800000, 150000, 1300000, x)
    [] hazard_type = "flood" /\ key = "schools" ->
         PowerCurve(900000, 200000, 1500000, x)
    [] hazard_type = "flood" /\ key = "bridges" ->
         PowerCurve(700000, 50000, 2500000, x)
    [] hazard_type = "flood" /\ key = "embankments" ->
         PowerCurve(SC, 100000, 2200000, x)
    [] hazard_type = "flood" /\ key = "power_infrastructure" ->
         PowerCurve(950000, 250000, 1200000, x)
    [] hazard_type = "flood" /\ key = "telecom" ->
         PowerCurve(900000, 200000, 1300000, x)
    [] hazard_type = "cyclone" /\ key = "hospitals" ->
         WindCurve(700000, 700000, 100, x)
    [] hazard_type = "cyclone" /\ key = "schools" ->
         WindCurve(800000, 900000, 80, x)
    [] hazard_type = "cyclone" /\ key = "bridges" ->
         WindCurve(400000, 300000, 120, x)
    [] hazard_type = "cyclone" /\ key = "embankments" ->
         \* 0.00004 * wind ** 1.5 = 0.04 * (wind / 100) ** 1.5
         PowerCurve(600000, 40000, 1500000, x \div 100)
    [] hazard_type = "cyclone" /\ key = "power_infrastructure" ->
         WindCurve(900000, SC, 60, x)
    [] hazard_type = "cyclone" /\ key = "telecom" ->
         WindCurve(950000, 1500000, 70, x)
    [] hazard_type = "earthquake" /\ key = "hospitals" ->
         PowerCurve(900000, 1300000, 1700000, x)
    [] hazard_type = "earthquake" /\ key = "schools" ->
         PowerCurve(950000, 1800000, 1500000, x)
    [] hazard_type = "earthquake" /\ key = "bridges" ->
         PowerCurve(850000, 1200000, 1800000, x)
    [] hazard_type = "earthquake" /\ key = "embankments" ->
         PowerCurve(700000, SC, 1600000, x)
    [] hazard_type = "earthquake" /\ key = "power_infrastructure" ->
         PowerCurve(800000, 1300000, 1400000, x)
    [] hazard_type = "earthquake" /\ key = "telecom" ->
         PowerCurve(750000, 1100000, 1500000, x)

\* the infrastructure types step 3 gives a damage entry
damaged_infra_types(exposed_elements, hazard_event) ==
  {t \in DOMAIN exposed_elements.critical_infrastructure :
     /\ infra_vulnerability_key(t) # "None"
     /\ hazard_event.type \in BuildingHazards}

\* step 3: damages['infrastructure']
infrastructure_damages(exposed_elements, hazard_event) ==
  [t \in damaged_infra_types(exposed_elements, hazard_event) |->
     LET count == exposed_elements.critical_infrastructure[t]
         damage_ratio ==
           infrastructure_damage_function(infra_vulnerability_key(t),
             hazard_event.type, event_intensity(hazard_event))
     IN  [count |-> count,
          damage_ratio |-> damage_ratio,
          damaged_count |-> IntTimes(count, damage_ratio)]]

\* the keys of functional_disruption that are also vulnerability categories
DisruptionKeys == {"hospitals", "schools", "telecom"}

\* values the gamma draw of functional_disruption[key][tier]() can return:
\* half and twice the mean shape * scale of the tier, in days
disruption_days_samples(key, damage_ratio) ==
  LET tier == IF damage_ratio < 200000 THEN 1
              ELSE IF damage_ratio < 500000 THEN 2 ELSE 3
      mean == CASE key = "hospitals" -> <<4, 30, 150>>[tier]
                [] key = "schools" -> <<15, 49, 180>>[tier]
                [] key = "telecom" -> <<1, 4, 15>>[tier]
  IN  <<(mean * SC) \div 2, 2 * mean * SC>>

\* the infrastructure types step 3 gives a functional-disruption entry
disrupted_infra_types(infrastructure) ==
  {t \in DOMAIN infrastructure : infra_vulnerability_key(t) \in DisruptionKeys}

\* damages['functional_disruption'] for the sampled disruption days
functional_disruption(infrastructure, days) ==
  [t \in disrupted_infra_types(infrastructure) |->
     [mean_disruption_days |-> days[t],
      total_service_days_lost |->
        \* int(count * damage_ratio * disruption_days), to 1/1000 day
        (infrastructure[t].count
           * (Mul(infrastructure[t].damage_ratio, days[t]) \div 1000))
          \div 1000]]

\* agricultural_vulnerability[vulnerability_key]: every crop key of the
\* exposure model maps to a category of its own
agriculture_damage_ratio(crop_type, hazard_event) ==
  LET ht == hazard_event.type
      intensity == event_intensity(hazard_event)
      duration == IF "duration" \in DOMAIN hazard_event
                  THEN hazard_event.duration ELSE 3 * SC
      flood == CASE crop_type = "rice_area_ha" -> <<200000, 50000>>
                 [] crop_type = "wheat_area_ha" -> <<300000, 70000>>
                 [] crop_type = "jute_area_ha" -> <<150000, 40000>>
                 [] crop_type = "vegetable_area_ha" -> <<350000, 80000>>
                 [] crop_type = "aquaculture_area_ha" -> <<100000, 20000>>
      cyclone == CASE crop_type = "rice_area_ha" -> <<3000, 150000, 50>>
                   [] crop_type = "wheat_area_ha" -> <<2500, 100000, 40>>
                   [] crop_type = "jute_area_ha" -> <<3500, 120000, 45>>
                   [] crop_type = "vegetable_area_ha" -> <<4000, 100000, 35>>
                   [] crop_type = "aquaculture_area_ha" -> <<1500, 50000, 60>>
      drought == CASE crop_type = "rice_area_ha" -> 800000
                   [] crop_type = "wheat_area_ha" -> 700000
                   [] crop_type = "jute_area_ha" -> 900000
                   [] crop_type = "vegetable_area_ha" -> 850000
                   [] crop_type = "aquaculture_area_ha" -> 950000
  IN  CASE ht = "flood" ->
             Min(SC, Max(0, Mul(flood[1], intensity) + Mul(flood[2], duration)))
        [] ht = "cyclone" ->
             Min(SC, Max(0, IF intensity > cyclone[3] * SC
                            THEN Mul(cyclone[1], intensity) - cyclone[2]
                            ELSE 0))
        [] ht = "drought" -> Min(SC, Max(0, Mul(drought, intensity)))
        [] OTHER -> Min(900000, Max(0, Mul(200000, intensity)))

\* step 4: damages['agriculture']
agriculture_damages(exposed_elements, hazard_event) ==
  [c \in DOMAIN exposed_elements.agriculture |->
     LET damage_ratio == agriculture_damage_ratio(c, hazard_event)
     IN  [area_ha |-> exposed_elements.agriculture[c],
          damage_ratio |-> damage_ratio,
          damaged_area_ha |->
            IntTimes(exposed_elements.agriculture[c], damage_ratio)]]

\* average values, in units of 10,000 BDT
building_values(building_type) ==
  CASE building_type = "RCC" -> 500
    [] building_type = "semi_pucca" -> 150
    [] building_type = "kutcha" -> 50
    [] building_type = "jhupri" -> 10
    [] OTHER -> 0

infrastructure_values(infra_type) ==
  CASE infra_type = "hospitals" -> 10000
    [] infra_type = "primary_schools" -> 1000
    [] infra_type = "secondary_schools" -> 2000
    [] infra_type = "power_plants" -> 500000
    [] infra_type = "bridges" -> 5000
    [] infra_type = "embankments_km" -> 1000
    [] infra_type = "cyclone_shelters" -> 2000
    [] infra_type = "telecom_towers" -> 500
    [] OTHER -> 0

agriculture_values(crop_type) ==
  CASE crop_type = "rice_area_ha" -> 15
    [] crop_type = "wheat_area_ha" -> 12
    [] crop_type = "jute_area_ha" -> 20
    [] crop_type = "vegetable_area_ha" -> 30
    [] crop_type = "aquaculture_area_ha" -> 50
    [] OTHER -> 0

\* total_loss += damage['damaged_count'] * avg_value * damage['damage_ratio']
calculate_building_losses(buildings) ==
  SumOver([k \in DOMAIN buildings |->
             Mul(buildings[k].damaged_count * building_values(k),
                 buildings[k].damage_ratio)])

calculate_infrastructure_losses(infrastructure) ==
  SumOver([k \in DOMAIN infrastructure |->
             Mul(infrastructure[k].damaged_count * infrastructure_values(k),
                 infrastructure[k].damage_ratio)])

calculate_agriculture_losses(agriculture) ==
  SumOver([k \in DOMAIN agriculture |->
             Mul(agriculture[k].damaged_area_ha * agriculture_values(k),
                 agriculture[k].damage_ratio)])

\* step 5: damages['economic'], in units of 10,000 BDT
economic_losses(buildings, infrastructure, agriculture, disruption) ==
  LET direct_losses ==
        calculate_building_losses(buildings)
        + calculate_infrastructure_losses(infrastructure)
        + calculate_agriculture_losses(agriculture)
      days_lost ==
        SumOver([t \in DOMAIN disruption |->
                   disruption[t].total_service_days_lost])
      \* 0.5 + 0.1 * (days_lost / 100)
      indirect_loss_multiplier ==
        Min(3 * SC, Max(200000, 500000 + days_lost * 1000))
  IN  [direct_losses |-> direct_losses,
       indirect_losses |-> Mul(direct_losses, indirect_loss_multiplier)]

\* the dictionary calculate_damages returns; days holds the disruption draws
CalculateDamages(exposed_elements, hazard_event, days) ==
  LET buildings == building_damages(exposed_elements, hazard_event)
      infrastructure == infrastructure_damages(exposed_elements, hazard_event)
      agriculture == agriculture_damages(exposed_elements, hazard_event)
      disruption == functional_disruption(infrastructure, days)
  IN  [buildings |-> buildings,
       casualties |-> casualties(exposed_elements, hazard_event, buildings),
       infrastructure |-> infrastructure,
       agriculture |-> agriculture,
       economic |->
         economic_losses(buildings, infrastructure, agriculture, disruption),
       functional_disruption |-> disruption]

\* hazard events handed to calculate_damages: flood depths in metres with
\* and without a duration in days, cyclone wind speeds in km/h with and
\* without the storm surge generate_events attaches, earthquake
\* magnitudes, and two hazards that take the generic branch
DamageEvents ==
  {[type |-> "flood", depth |-> d] : d \in {200000, 4684000, 8500000}}
  \cup {[type |-> "flood", depth |-> d, duration |-> 15 * SC] :
          d \in {SC, 4684000}}
  \cup {[type |-> "cyclone", wind_speed |-> w] : w \in {35 * SC, 150 * SC}}
  \cup {[type |-> "cyclone", wind_speed |-> w, storm_surge |-> Mul(60000, w)] :
          w \in {150 * SC, 189078000, 250 * SC}}
  \cup {[type |-> "earthquake", magnitude |-> m] : m \in {5 * SC, 7800000}}
  \cup {[type |-> t, intensity |-> i] :
          t \in {"drought", "landslide"}, i \in {500000, 3 * SC}}

NoAgriculture ==
  [rice_area_ha |-> 0, wheat_area_ha |-> 0, jute_area_ha |-> 0,
   vegetable_area_ha |-> 0, aquaculture_area_ha |-> 0]

NoInfrastructure ==
  [hospitals |-> 0, primary_schools |-> 0, secondary_schools |-> 0,
   power_plants |-> 0, bridges |-> 0, embankments_km |-> 0,
   cyclone_shelters |-> 0, telecom_towers |-> 0]

SomeInfrastructure ==
  [hospitals |-> 5, primary_schools |-> 100, secondary_schools |-> 30,
   power_plants |-> 2, bridges |-> 10, embankments_km |-> 50,
   cyclone_shelters |-> 10, telecom_towers |-> 40]

SomeAgriculture ==
  [rice_area_ha |-> 20000, wheat_area_ha |-> 1000, jute_area_ha |-> 1500,
   vegetable_area_ha |-> 2000, aquaculture_area_ha |-> 1500]

\* exposed elements handed to calculate_damages
DamagePopulations == {0, 1000, 500000}

DamageBuildings ==
  {[RCC |-> 0, semi_pucca |-> 0, kutcha |-> 0, jhupri |-> 0],
   [RCC |-> 150, semi_pucca |-> 250, kutcha |-> 500, jhupri |-> 100],
   [RCC |-> 15000, semi_pucca |-> 25000, kutcha |-> 50000, jhupri |-> 10000]}

DamageInfrastructure == {NoInfrastructure, SomeInfrastructure}

DamageAgriculture == {SomeAgriculture, NoAgriculture}

DamageExposures ==
  [population : DamagePopulations, buildings : DamageBuildings,
   critical_infrastructure : DamageInfrastructure,
   agriculture : DamageAgriculture]

DmgInit ==
  \E ev \in DamageEvents : \E ex \in DamageExposures :
    dmg = [hazard_event |-> ev, exposed_elements |-> ex, damages |-> <<>>]

\* one call calculate_damages(exposed_elements, hazard_event)
calculate_damages ==
  /\ dmg.damages = <<>>
  /\ LET infrastructure ==
           infrastructure_damages(dmg.exposed_elements, dmg.hazard_event)
         disrupted == disrupted_infra_types(infrastructure)
     IN  \E pick \in [disrupted -> {1, 2}] :
           LET days == [t \in disrupted |->
                          disruption_days_samples(
                            infra_vulnerability_key(t),
                            infrastructure[t].damage_ratio)[pick[t]]]
           IN  dmg' = [dmg EXCEPT !.damages =
                         <<CalculateDamages(dmg.exposed_elements,
                                            dmg.hazard_event, days)>>]
  /\ UNCHANGED <<gen, expo, rec, run, orch, repro, clim, warn, resp>>

DamageInit ==
  /\ DmgInit
  /\ gen = Idle /\ expo = Idle /\ rec = Idle
  /\ run = Idle /\ orch = Idle /\ repro = Idle
  /\ clim = Idle /\ warn = Idle /\ resp = Idle

DamageNext == calculate_damages

SpecDamage == DamageInit /\ [][DamageNext]_vars

\* C1: the deaths, injuries and displaced counts calculate_damages returns
\* are each a non-negative integer and together do not exceed the exposed
\* population.
C1_CasualtiesWithinExposedPopulation ==
  dmg.damages # <<>> =>
    LET c == dmg.damages[1].casualties
    IN  /\ c.deaths \in Nat /\ c.injuries \in Nat /\ c.displaced \in Nat
        /\ c.deaths + c.injuries + c.displaced <= dmg.exposed_elements.population

\* an entry of damages['buildings'] or damages['infrastructure']
CountEntryInRange(entry) ==
  /\ 0 <= entry.damage_ratio /\ entry.damage_ratio <= SC
  /\ 0 <= entry.damaged_count /\ entry.damaged_count <= entry.count

\* C12: in every damage assessment each building, infrastructure and
\* agriculture entry has 0 <= damage_ratio <= 1 and a damaged count (or
\* damaged area) between 0 and the exposed count (or area) of the entry.
C12_DamageRatiosAndCountsInRange ==
  dmg.damages # <<>> =>
    LET d == dmg.damages[1]
    IN  /\ \A b \in DOMAIN d.buildings : CountEntryInRange(d.buildings[b])
        /\ \A t \in DOMAIN d.infrastructure :
             CountEntryInRange(d.infrastructure[t])
        /\ \A c \in DOMAIN d.agriculture :
             /\ 0 <= d.agriculture[c].damage_ratio
             /\ d.agriculture[c].damage_ratio <= SC
             /\ 0 <= d.agriculture[c].damaged_area_ha
             /\ d.agriculture[c].damaged_area_ha <= d.agriculture[c].area_ha

\* a deep flood: every kutcha building is damaged (its curve is at the
\* clamp of 1.0), RCC is at its clamp of 0.9, hospitals are damaged in
\* part and some rice area is lost
C12_Witness ==
  /\ dmg.damages # <<>>
  /\ dmg.hazard_event.type = "flood"
  /\ LET d == dmg.damages[1]
     IN  /\ d.buildings["kutcha"].damage_ratio = SC
         /\ d.buildings["kutcha"].damaged_count = d.buildings["kutcha"].count
         /\ d.buildings["kutcha"].count > 0
         /\ d.buildings["RCC"].damage_ratio = 900000
         /\ d.infrastructure["hospitals"].damaged_count \in 1..4
         /\ d.agriculture["rice_area_ha"].damaged_area_ha > 0

\* C24: an RCC building under a flood of depth 1.0 m gets damage_ratio 0.1
\* and damaged_count equal to 0.1 * its exposed count rounded down, and
\* kutcha housing under a cyclone wind speed of 150 km/h gets a
\* damage_ratio above 0, at most 1.0 and equal to the maximum 1.0 of its
\* curve, so that every exposed kutcha building is damaged.
C24_ReferenceScenarios ==
  dmg.damages # <<>> =>
    LET ev == dmg.hazard_event
        b == dmg.damages[1].buildings
    IN  /\ (ev.type = "flood" /\ ev.depth = SC) =>
             /\ b["RCC"].damage_ratio = SC \div 10
             /\ b["RCC"].damaged_count = b["RCC"].count \div 10
             /\ b["RCC"].count = dmg.exposed_elements.buildings["RCC"]
        /\ (ev.type = "cyclone" /\ ev.wind_speed = 150 * SC) =>
             /\ b["kutcha"].damage_ratio > 0
             /\ b["kutcha"].damage_ratio <= SC
             /\ b["kutcha"].damage_ratio = SC
             /\ b["kutcha"].damaged_count
                  = dmg.exposed_elements.buildings["kutcha"]

\* the flood of depth 1.0 m on 15000 RCC buildings: 1500 damaged
C24_Witness ==
  /\ dmg.damages # <<>>
  /\ dmg.hazard_event.type = "flood"
  /\ dmg.hazard_event.depth = SC
  /\ dmg.damages[1].buildings["RCC"].count = 15000
  /\ dmg.damages[1].buildings["RCC"].damaged_count = 1500

\* the cyclone of 150 km/h on 500 kutcha buildings: all damaged
C24_CycloneReached ==
  /\ dmg.damages # <<>>
  /\ dmg.hazard_event.type = "cyclone"
  /\ dmg.hazard_event.wind_speed = 150 * SC
  /\ dmg.damages[1].buildings["kutcha"].damaged_count = 500

\* C25: for every hazard type and building type the building damage ratio
\* is exactly 0 whenever the hazard intensity is below the declared damage
\* threshold of that building type.
C25_ZeroBelowThreshold ==
  (dmg.damages # <<>> /\ dmg.hazard_event.type \in BuildingHazards) =>
    \A b \in BuildingTypes :
      event_intensity(dmg.hazard_event)
          < building_threshold(dmg.hazard_event.type, b) =>
        dmg.damages[1].buildings[b].damage_ratio = 0

\* the part of C25 on cyclones: the wind curves are 0 up to the threshold
C25_ZeroBelowWindThreshold ==
  (dmg.damages # <<>> /\ dmg.hazard_event.type = "cyclone") =>
    \A b \in BuildingTypes :
      event_intensity(dmg.hazard_event) < building_threshold("cyclone", b) =>
        dmg.damages[1].buildings[b].damage_ratio = 0

\* a wind of 35 km/h: below the thresholds of three types, above jhupri's
WindBelowThresholdReached ==
  /\ dmg.damages # <<>>
  /\ dmg.hazard_event.type = "cyclone"
  /\ dmg.hazard_event.wind_speed = 35 * SC
  /\ dmg.damages[1].buildings["kutcha"].damage_ratio = 0
  /\ dmg.damages[1].buildings["jhupri"].damage_ratio > 0

(***************************************************************************)
(* RecoveryModel                                                           *)
(***************************************************************************)
RecoverySectors == {"housing", "infrastructure", "livelihoods", "social"}

\* recovery_rates['housing'], in percent per month; 0 for a type without one
housing_recovery_rate(building_type) ==
  CASE building_type = "RCC" -> 10
    [] building_type = "semi_pucca" -> 8
    [] building_type = "kutcha" -> 15
    [] building_type = "jhupri" -> 20
    [] OTHER -> 0

\* recovery_rates['infrastructure'][mapped_type], in percent per month
infrastructure_recovery_rate(infra_type) ==
  CASE infra_type = "bridges" -> 5
    [] infra_type = "power_plants" -> 15
    [] infra_type \in {"primary_schools", "secondary_schools"} -> 8
    [] infra_type = "hospitals" -> 7
    [] infra_type = "embankments_km" -> 6
    [] OTHER -> 12

\* min(cap, int(1.0 / avg_rate)) for avg_rate = weighted_pct / (100 * total)
horizon_from_rate(cap, weighted_pct, total) ==
  Min(cap, (100 * SC) \div DivN(weighted_pct, total))

\* the horizon of a sector whose entries carry a damaged_count, rates[k]
\* being the recovery rate of entry k; -1 when 1.0 / avg_rate divides by
\* zero
damage_horizon(entries, rates, cap) ==
  LET total_damaged ==
        SumOver([k \in DOMAIN entries |-> entries[k].damaged_count])
      weighted_pct ==
        SumOver([k \in DOMAIN entries |-> entries[k].damaged_count * rates[k]])
  IN  IF DOMAIN entries = {} \/ total_damaged <= 0 THEN 0
      ELSE IF weighted_pct = 0 THEN -1
      ELSE horizon_from_rate(cap, weighted_pct, total_damaged)

\* both amounts divided by the same number so that their sum is below SC
ScaleDown(a, b) ==
  LET k == (Max(a, b) \div (SC \div 2)) + 1
  IN  <<a \div k, b \div k>>

\* horizons['livelihoods']: direct losses recover at 12%, indirect at 8%
livelihoods_horizon(economic) ==
  LET direct_losses == economic.direct_losses
      indirect_losses == economic.indirect_losses
      sc == ScaleDown(direct_losses, indirect_losses)
  IN  IF direct_losses + indirect_losses > 0
      THEN horizon_from_rate(60, 12 * sc[1] + 8 * sc[2], sc[1] + sc[2])
      ELSE 0

\* horizons['social']: int((5 deaths + injuries + 0.5 displaced) / 1000)
social_horizon(cas) ==
  IF cas.deaths + cas.injuries + cas.displaced > 0
  THEN Min(84, (10 * cas.deaths + 2 * cas.injuries + cas.displaced) \div 2000)
  ELSE 0

\* RecoveryModel._calculate_recovery_horizons
calculate_recovery_horizons(affected_sectors) ==
  [housing |->
     damage_horizon(affected_sectors.housing,
       [k \in DOMAIN affected_sectors.housing |-> housing_recovery_rate(k)],
       60),
   infrastructure |->
     damage_horizon(affected_sectors.infrastructure,
       [k \in DOMAIN affected_sectors.infrastructure |->
          infrastructure_recovery_rate(k)],
       72),
   livelihoods |-> livelihoods_horizon(affected_sectors.livelihoods),
   social |-> social_horizon(affected_sectors.casualties)]

\* funding needs taken as the plain sum of the losses
estimate_funding_needs_unweighted(disaster_impacts) ==
  disaster_impacts.economic.direct_losses
  + disaster_impacts.economic.indirect_losses

\* funding needs = direct losses * 1.5 + indirect losses * 0.5
estimate_funding_needs(disaster_impacts) ==
  LET direct_losses == disaster_impacts.economic.direct_losses
      indirect_losses == disaster_impacts.economic.indirect_losses
  IN  direct_losses + direct_losses \div 2 + indirect_losses \div 2

\* funding_availability.get('total_funding', funding_needs * 0.7)
available_funding(funding_availability, funding_needs) ==
  IF "total_funding" \in DOMAIN funding_availability
  THEN funding_availability.total_funding
  ELSE (funding_needs \div 10) * 7 + ((funding_needs % 10) * 7) \div 10

\* funding_ratio = available_funding / funding_needs, for funding_needs > 0
funding_ratio(available, funding_needs) ==
  LET k == (funding_needs \div SC) + 1
  IN  DivN(available \div k, funding_needs \div k)

funding_level(ratio) ==
  IF ratio < 200000 THEN "very_low"
  ELSE IF ratio < 500000 THEN "low"
  ELSE IF ratio < 800000 THEN "medium"
  ELSE IF ratio < SC THEN "high"
  ELSE "very_high"

\* economic_recovery_multipliers['funding_level']
funding_multiplier(level) ==
  CASE level = "very_low" -> 600000
    [] level = "low" -> 800000
    [] level = "medium" -> SC
    [] level = "high" -> 1200000
    [] level = "very_high" -> 1300000

\* governance_quality.get(key, default)
Get(d, key, default) == IF key \in DOMAIN d THEN d[key] ELSE default

\* the weighted sum of the four governance_recovery_factors
governance_multiplier(governance_quality) ==
  LET coordination ==
        CASE Get(governance_quality, "coordination", "fair") = "poor" -> 700000
          [] Get(governance_quality, "coordination", "fair") = "fair" -> 900000
          [] Get(governance_quality, "coordination", "fair") = "good" -> 1100000
          [] Get(governance_quality, "coordination", "fair") = "excellent" ->
               1300000
      planning ==
        CASE Get(governance_quality, "planning_capacity", "medium") = "low" ->
               800000
          [] Get(governance_quality, "planning_capacity", "medium") = "medium" ->
               SC
          [] Get(governance_quality, "planning_capacity", "medium") = "high" ->
               1200000
      corruption ==
        CASE Get(governance_quality, "corruption_level", "medium") = "high" ->
               700000
          [] Get(governance_quality, "corruption_level", "medium") = "medium" ->
               900000
          [] Get(governance_quality, "corruption_level", "medium") = "low" ->
               1100000
      engagement ==
        CASE Get(governance_quality, "community_engagement", "medium") = "low" ->
               800000
          [] Get(governance_quality, "community_engagement", "medium") = "medium" ->
               SC
          [] Get(governance_quality, "community_engagement", "medium") = "high" ->
               1200000
  IN  Mul(coordination, 300000) + Mul(planning, 300000)
      + Mul(corruption, 200000) + Mul(engagement, 200000)

\* regional_recovery_factors, 1.0 for a region type that has none
regional_multiplier(disaster_impacts) ==
  LET region_type == Get(disaster_impacts, "region_type", "flood_plain")
  IN  CASE region_type \in {"coastal", "flood_plain"} -> 900000
        [] region_type = "urban" -> 1100000
        [] region_type \in {"haor_basin", "hill_tracts"} -> 800000
        [] region_type = "char_lands" -> 700000
        [] OTHER -> SC

\* the product of the three build_back_better_effectiveness factors
bbb_improvement(funding_availability) ==
  LET policy ==
        CASE Get(funding_availability, "bbb_policy_strength", "moderate")
               = "weak" -> 100000
          [] Get(funding_availability, "bbb_policy_strength", "moderate")
               = "moderate" -> 200000
          [] Get(funding_availability, "bbb_policy_strength", "moderate")
               = "strong" -> 300000
      funding ==
        CASE Get(funding_availability, "bbb_funding_allocation", "medium")
               = "low" -> 100000
          [] Get(funding_availability, "bbb_funding_allocation", "medium")
               = "medium" -> 200000
          [] Get(funding_availability, "bbb_funding_allocation", "medium")
               = "high" -> 300000
      capacity ==
        CASE Get(funding_availability, "bbb_technical_capacity", "adequate")
               = "limited" -> 600000
          [] Get(funding_availability, "bbb_technical_capacity", "adequate")
               = "adequate" -> SC
          [] Get(funding_availability, "bbb_technical_capacity", "adequate")
               = "strong" -> 1300000
  IN  Mul(Mul(policy, funding), capacity)

\* seasonal_recovery_factors[month], month 1..12
seasonal_recovery_factor(month) ==
  <<900000, SC, 1100000, SC, 900000, 700000,
    600000, 600000, 700000, 900000, SC, 900000>>[month]

\* recovery_patterns[...](t, max_t) for the sector's pattern
pattern_func(sector, t, max_t) ==
  LET x == (t * SC) \div max_t
      z == 10 * (x - SC \div 2)
      q == Exp(-Abs(z))
  IN  CASE sector = "housing" -> Pow(x, 500000)
        [] sector \in {"infrastructure", "livelihoods"} ->
             \* 1 / (1 + exp(-z))
             IF z >= 0 THEN DivN(SC, SC + q) ELSE DivN(q, SC + q)
        [] sector = "social" -> Mul(x, x)
        [] OTHER -> x

\* a variant whose timesteps stop one month short: np.arange(0, horizon)
timesteps_exclusive(horizon) == [i \in 1..horizon |-> i - 1]

\* timesteps = np.arange(0, horizon + 1)
timesteps(horizon) == [i \in 1..(horizon + 1) |-> i - 1]

\* a variant that starts from the pattern's own first value
initial_recovery_from_pattern(base_trajectory) == base_trajectory[1]

\* the t_idx == 0 branch: start at 0
initial_recovery(base_trajectory) == 0

\* a variant without the cap at 100% recovery
adjusted_recovery_uncapped(previous, adjusted_increment) ==
  previous + adjusted_increment

\* adjusted_recovery = min(1.0, adjusted_trajectory[-1] + adjusted_increment)
adjusted_recovery(previous, adjusted_increment) ==
  Min(SC, previous + adjusted_increment)

\* adjusted_increment for entry i of base_trajectory (t_idx = i - 1)
adjusted_increment(base_trajectory, multiplier, i) ==
  LET t_idx == i - 1
      current_month == 1
      month_idx == ((current_month + t_idx - 1) % 12) + 1
      increment == base_trajectory[i] - base_trajectory[i - 1]
  IN  Mul(Mul(increment, multiplier), seasonal_recovery_factor(month_idx))

\* the entries a..b the loop appends to adjusted_trajectory, previous being
\* adjusted_trajectory[-1] when it reaches entry a; the range is halved to
\* keep the evaluation shallow
RECURSIVE adjusted_segment(_, _, _, _, _)
adjusted_segment(base_trajectory, multiplier, a, b, previous) ==
  IF a > b THEN <<>>
  ELSE IF a = b
  THEN <<IF a = 1 THEN initial_recovery(base_trajectory)
         ELSE adjusted_recovery(previous,
                adjusted_increment(base_trajectory, multiplier, a))>>
  ELSE LET mid == (a + b) \div 2
           left == adjusted_segment(base_trajectory, multiplier, a, mid, previous)
       IN  left \o adjusted_segment(base_trajectory, multiplier, mid + 1, b,
                                    left[Len(left)])

\* the loop that builds adjusted_trajectory
adjusted_trajectory(base_trajectory, multiplier) ==
  adjusted_segment(base_trajectory, multiplier, 1, Len(base_trajectory), 0)

\* RecoveryModel._generate_sector_trajectory; multiplier is the product
\* funding_multiplier * governance_multiplier * regional_multiplier
generate_sector_trajectory(sector, horizon, multiplier) ==
  IF horizon = 0 THEN <<SC>>
  ELSE LET ts == timesteps(horizon)
           base_trajectory ==
             [i \in 1..Len(ts) |-> pattern_func(sector, ts[i], horizon)]
       IN  adjusted_trajectory(base_trajectory, multiplier)

\* the "Build Back Better" step of simulate_recovery
apply_bbb(base_trajectory, bbb) ==
  IF bbb > 0
  THEN LET final_state == Mul(base_trajectory[Len(base_trajectory)], SC + bbb)
       IN  [i \in 1..Len(base_trajectory) |-> Min(base_trajectory[i], final_state)]
  ELSE base_trajectory

\* the first month whose value reaches the threshold, -1 for None
first_month_reaching(trajectory, threshold) ==
  LET hit == {i \in 1..Len(trajectory) : trajectory[i] >= threshold}
  IN  IF hit = {} THEN -1
      ELSE (CHOOSE i \in hit : \A j \in hit : i <= j) - 1

\* RecoveryModel._calculate_recovery_milestones
calculate_recovery_milestones(recovery_trajectories) ==
  [sector \in DOMAIN recovery_trajectories |->
     [th \in {30, 50, 70, 90} |->
        first_month_reaching(recovery_trajectories[sector], th * 10000)]]

\* RecoveryModel._assess_recovery_quality, per sector
assess_recovery_quality(recovery_trajectories, bbb) ==
  [sector \in DOMAIN recovery_trajectories |->
     LET trajectory == recovery_trajectories[sector]
         halfway_point == first_month_reaching(trajectory, 500000)
         speed_score ==
           IF halfway_point # -1
           THEN Min(SC, (12 * SC) \div Max(1, halfway_point))
           ELSE 0
         completeness == trajectory[Len(trajectory)]
         quality == Min(SC, Mul(completeness, SC + bbb))
     IN  [speed |-> speed_score,
          completeness |-> completeness,
          quality |-> quality,
          overall_score |-> Mul(speed_score, 300000) + Mul(completeness, 300000)
                            + Mul(quality, 400000)]]

\* the value simulate_recovery returns when nothing raises; nan tells that
\* funding_ratio is the quotient 0 / 0 of numpy floats
RecoveryResult(disaster_impacts, governance_quality, funding_availability, nan) ==
  LET affected_sectors ==
        [housing |-> disaster_impacts.buildings,
         infrastructure |-> disaster_impacts.infrastructure,
         livelihoods |-> disaster_impacts.economic,
         casualties |-> disaster_impacts.casualties]
      recovery_horizons == calculate_recovery_horizons(affected_sectors)
      funding_needs == estimate_funding_needs(disaster_impacts)
      available == available_funding(funding_availability, funding_needs)
      ratio == IF nan THEN 0 ELSE funding_ratio(available, funding_needs)
      level == IF nan THEN "very_high" ELSE funding_level(ratio)
      multiplier ==
        Mul(Mul(funding_multiplier(level),
                governance_multiplier(governance_quality)),
            regional_multiplier(disaster_impacts))
      bbb == bbb_improvement(funding_availability)
      recovery_trajectories ==
        [sector \in RecoverySectors |->
           apply_bbb(generate_sector_trajectory(sector,
                       recovery_horizons[sector], multiplier), bbb)]
  IN  [status |-> "returned",
       recovery_trajectories |-> recovery_trajectories,
       recovery_horizon_months |-> recovery_horizons,
       recovery_milestones |->
         calculate_recovery_milestones(recovery_trajectories),
       recovery_quality |-> assess_recovery_quality(recovery_trajectories, bbb),
       \* recovery_quality['aggregate']['overall_score']
       aggregate_score |->
         SumOver([sector \in RecoverySectors |->
                    assess_recovery_quality(recovery_trajectories, bbb)[sector]
                      .overall_score]) \div Cardinality(RecoverySectors),
       funding_ratio |-> ratio,
       funding_ratio_is_nan |-> nan,
       funding_level |-> level,
       bbb_improvement |-> bbb,
       total_funding_needs |-> funding_needs,
       available_funding |-> available]

\* the (exposed elements, hazard event) pairs whose damage assessments are
\* handed on to simulate_recovery
RecoveryCases ==
  {[hazard_event |-> [type |-> "flood", depth |-> 4684000],
    exposed_elements |->
      [population |-> 500000,
       buildings |-> [RCC |-> 15000, semi_pucca |-> 25000,
                      kutcha |-> 50000, jhupri |-> 10000],
       critical_infrastructure |-> SomeInfrastructure,
       agriculture |-> SomeAgriculture]],
   [hazard_event |-> [type |-> "flood", depth |-> 200000],
    exposed_elements |->
      [population |-> 1000,
       buildings |-> [RCC |-> 150, semi_pucca |-> 250,
                      kutcha |-> 500, jhupri |-> 100],
       critical_infrastructure |-> NoInfrastructure,
       agriculture |-> SomeAgriculture]],
   [hazard_event |-> [type |-> "earthquake", magnitude |-> 5 * SC],
    exposed_elements |->
      [population |-> 500000,
       buildings |-> [RCC |-> 150, semi_pucca |-> 250,
                      kutcha |-> 500, jhupri |-> 100],
       critical_infrastructure |-> SomeInfrastructure,
       agriculture |-> SomeAgriculture]],
   [hazard_event |-> [type |-> "drought", intensity |-> 500000],
    exposed_elements |->
      [population |-> 1000,
       buildings |-> [RCC |-> 150, semi_pucca |-> 250,
                      kutcha |-> 500, jhupri |-> 100],
       critical_infrastructure |-> SomeInfrastructure,
       agriculture |-> SomeAgriculture]],
   [hazard_event |-> [type |-> "flood", depth |-> 200000],
    exposed_elements |->
      [population |-> 0,
       buildings |-> [RCC |-> 0, semi_pucca |-> 0, kutcha |-> 0, jhupri |-> 0],
       critical_infrastructure |-> NoInfrastructure,
       agriculture |-> NoAgriculture]]}

\* region_type of the disaster impacts; "absent" when the key is missing
RegionTypes == {"absent", "urban", "char_lands"}

GovernanceQualities ==
  {[k \in {} |-> "medium"],
   [coordination |-> "poor", planning_capacity |-> "low",
    corruption_level |-> "high", community_engagement |-> "low"],
   [coordination |-> "excellent", planning_capacity |-> "high",
    corruption_level |-> "low", community_engagement |-> "high"]}

\* total_funding is in units of 10,000 BDT
FundingAvailabilities ==
  {[k \in {} |-> 0],
   [total_funding |-> 0],
   [total_funding |-> 100000, bbb_policy_strength |-> "weak",
    bbb_funding_allocation |-> "low", bbb_technical_capacity |-> "limited"],
   [total_funding |-> 40000000, bbb_policy_strength |-> "strong",
    bbb_funding_allocation |-> "high", bbb_technical_capacity |-> "strong"]}

RecInit ==
  /\ \E c \in RecoveryCases :
       dmg = [hazard_event |-> c.hazard_event,
              exposed_elements |-> c.exposed_elements, damages |-> <<>>]
  /\ \E r \in RegionTypes : \E g \in GovernanceQualities :
     \E f \in FundingAvailabilities :
       rec = [region_type |-> r, governance_quality |-> g,
              funding_availability |-> f, result |-> <<>>]

Raised == [status |-> "ZeroDivisionError"]

\* the damage assessment as handed to simulate_recovery
disaster_impacts_of(damages, region_type) ==
  IF region_type = "absent" THEN damages
  ELSE damages @@ [region_type |-> region_type]

\* one call simulate_recovery(disaster_impacts, governance_quality,
\* funding_availability) on the damage assessment of the event
simulate_recovery ==
  /\ dmg.damages # <<>>
  /\ rec.result = <<>>
  /\ LET d == disaster_impacts_of(dmg.damages[1], rec.region_type)
         horizons ==
           calculate_recovery_horizons(
             [housing |-> d.buildings, infrastructure |-> d.infrastructure,
              livelihoods |-> d.economic, casualties |-> d.casualties])
         zero_rate == \E sec \in RecoverySectors : horizons[sec] < 0
         zero_needs == estimate_funding_needs(d) = 0
     IN  \* 1.0 / avg_rate with avg_rate = 0 raises; available_funding /
         \* funding_needs with funding_needs = 0 raises for Python numbers
         \* and is nan or inf for numpy floats
         \/ /\ zero_rate \/ zero_needs
            /\ rec' = [rec EXCEPT !.result = <<Raised>>]
         \/ /\ ~zero_rate
            /\ rec' = [rec EXCEPT !.result =
                         <<RecoveryResult(d, rec.governance_quality,
                                          rec.funding_availability, zero_needs)>>]
  /\ UNCHANGED <<gen, expo, dmg, run, orch, repro, clim, warn, resp>>

RecoveryInit ==
  /\ RecInit
  /\ gen = Idle /\ expo = Idle
  /\ run = Idle /\ orch = Idle /\ repro = Idle
  /\ clim = Idle /\ warn = Idle /\ resp = Idle

RecoveryNext == calculate_damages \/ simulate_recovery

SpecRecovery == RecoveryInit /\ [][RecoveryNext]_vars

\* the results simulate_recovery has returned
Returned == rec.result # <<>> /\ rec.result[1].status = "returned"

\* C6: every sector trajectory simulate_recovery returns is non-decreasing
\* from month to month, every value lies in [0, 1 + bbb_improvement], and
\* the last value is at most 1 + bbb_improvement.
C6_TrajectoryMonotoneAndBounded ==
  Returned =>
    \A sector \in RecoverySectors :
      LET t == rec.result[1].recovery_trajectories[sector]
          top == SC + rec.result[1].bbb_improvement
      IN  /\ \A i \in 1..Len(t) : 0 <= t[i] /\ t[i] <= top
          /\ \A i \in 1..(Len(t) - 1) : t[i] <= t[i + 1]
          /\ t[Len(t)] <= top

\* a returned recovery in which a damaged sector climbs from 0 to the cap
C6_Witness ==
  /\ Returned
  /\ \E sector \in RecoverySectors :
       LET t == rec.result[1].recovery_trajectories[sector]
       IN  /\ rec.result[1].recovery_horizon_months[sector] > 0
           /\ t[1] = 0
           /\ t[Len(t)] = SC
           /\ \E i \in 1..(Len(t) - 1) : 0 < t[i] /\ t[i] < t[i + 1]

\* C7 as stated: every sector trajectory simulate_recovery returns starts
\* at 0, including the trajectory of a sector whose horizon is 0.
C7_EveryTrajectoryStartsAtZero ==
  Returned =>
    \A sector \in RecoverySectors :
      rec.result[1].recovery_trajectories[sector][1] = 0

\* C7 as amended: the trajectory of a sector with a horizon above 0 starts
\* at 0, and the trajectory of a sector whose horizon is 0 is the single
\* value 1.0.
C7_DamagedSectorsStartAtZero ==
  Returned =>
    \A sector \in RecoverySectors :
      LET t == rec.result[1].recovery_trajectories[sector]
      IN  IF rec.result[1].recovery_horizon_months[sector] > 0
          THEN t[1] = 0
          ELSE t = <<SC>>

\* a returned recovery with an undamaged sector and an S-shaped damaged one
C7_Witness ==
  /\ Returned
  /\ \E sector \in RecoverySectors :
       rec.result[1].recovery_horizon_months[sector] = 0
  /\ rec.result[1].recovery_horizon_months["livelihoods"] > 0
  /\ rec.result[1].recovery_trajectories["livelihoods"][2] > 0

\* C8 as stated: the number of entries of each sector's trajectory equals
\* the sector's recovery horizon in months.
C8_LengthEqualsHorizon ==
  Returned =>
    \A sector \in RecoverySectors :
      Len(rec.result[1].recovery_trajectories[sector])
        = rec.result[1].recovery_horizon_months[sector]

\* C8 as amended: the number of entries of each sector's trajectory is the
\* sector's recovery horizon plus one (the months 0 to horizon).
C8_LengthIsHorizonPlusOne ==
  Returned =>
    \A sector \in RecoverySectors :
      Len(rec.result[1].recovery_trajectories[sector])
        = rec.result[1].recovery_horizon_months[sector] + 1

\* a returned recovery whose social horizon is at its cap of 84 months
C8_Witness ==
  /\ Returned
  /\ rec.result[1].recovery_horizon_months["social"] = 84
  /\ Len(rec.result[1].recovery_trajectories["social"]) = 85
  /\ rec.result[1].recovery_horizon_months["housing"] \in 1..59

\* the five funding levels in the order of their thresholds
FundingLevels == <<"very_low", "low", "medium", "high", "very_high">>

\* the lower thresholds of the five funding levels, in tenths
FundingThresholdTenths == <<0, 2, 5, 8, 10>>

\* the multipliers the claim gives for the five funding levels
ClaimedMultipliers == <<600000, 800000, SC, 1200000, 1300000>>

\* a returned recovery whose funding needs are above 0
ReturnedFunded == Returned /\ ~rec.result[1].funding_ratio_is_nan

None == [given |-> FALSE, value |-> <<>>]

Given(list) == [given |-> TRUE, value |-> list]

\* the program that is not the one running
Off == [pc |-> "off"]

RunnerScenarioLists == {<<"baseline">>, <<"baseline", "rcp85">>}

RunnerRegionLists == {<<"national">>, <<"national", "coastal">>}

\* start_year and end_year of config['simulation']
YearRanges ==
  { [start_year |-> 2025, end_year |-> 2024],
    [start_year |-> 2025, end_year |-> 2025],
    [start_year |-> 2025, end_year |-> 2027] }

\* the regions run_simulation iterates: its argument, or for None the value
\* of config['simulation']['regions'] (None here: the key is absent)
resolve_regions(regions_arg, config_regions) ==
  IF regions_arg.given THEN regions_arg ELSE config_regions

\* the casualties a year's sample data can carry in ['impacts']
SampleCasualties == {0, 2}

\* the year record _generate_sample_data(scenario, region, year) returns,
\* sampled being its ['impacts']['casualties']
generate_sample_data(scenario, region, year, sampled) ==
  [scenario |-> scenario, region |-> region, year |-> year,
   casualties |-> sampled]

RunInit ==
  \E sc \in RunnerScenarioLists,
     ra \in {Given(l) : l \in RunnerRegionLists} \cup {None},
     cr \in {None, Given(<<"national">>)}, yr \in YearRanges :
    run = [scenarios |-> sc,
           regions_arg |-> ra,
           config_regions |-> cr,
           start_year |-> yr.start_year,
           end_year |-> yr.end_year,
           pc |-> "start",
           regions |-> <<>>,
           scenario |-> 0,
           region |-> 0,
           year |-> 0,
           region_results |-> <<>>,
           finished |-> <<>>,
           status |-> "running"]

\* run_simulation up to the first call of _run_time_series
runner_run_simulation ==
  /\ run.pc = "start"
  /\ LET regions == resolve_regions(run.regions_arg, run.config_regions)
     IN  IF ~regions.given
         THEN run' = [run EXCEPT !.pc = "done", !.status = "KeyError"]
         ELSE run' = [run EXCEPT !.pc = "time_series",
                                 !.regions = regions.value,
                                 !.scenario = 1,
                                 !.region = 1,
                                 !.year = run.start_year,
                                 !.region_results = <<>>]
  /\ UNCHANGED <<gen, expo, dmg, rec, orch, repro, clim, warn, resp>>

\* one iteration of the loop for year in range(start_year, end_year + 1)
run_time_series ==
  /\ run.pc = "time_series"
  /\ run.year <= run.end_year
  /\ \E sampled \in SampleCasualties :
       run' = [run EXCEPT
                 !.region_results =
                   Append(@, generate_sample_data(run.scenarios[run.scenario],
                                                  run.regions[run.region],
                                                  run.year, sampled)),
                 !.year = @ + 1]
  /\ UNCHANGED <<gen, expo, dmg, rec, orch, repro, clim, warn, resp>>

\* outcomes of the lookup self.results[scenario][region] in
\* _calculate_metrics: it is made once per year of the range, and whether
\* the region key is there by then is up to _generate_sample_data
MetricsOutcomes(r) ==
  IF r.end_year < r.start_year THEN {"returned"} ELSE {"returned", "KeyError"}

\* region_results['metrics'], the value the call of _calculate_metrics
\* gives: the empty dict when it finds no yearly data, an exception, and
\* otherwise None, the function ending without a return statement; a
\* metrics dict would carry total_casualties
returned_metrics(r, outcome) ==
  IF outcome = "KeyError"
  THEN [kind |-> "KeyError", filled |-> FALSE, total_casualties |-> 0]
  ELSE IF r.end_year < r.start_year
  THEN [kind |-> "dict", filled |-> FALSE, total_casualties |-> 0]
  ELSE [kind |-> "None", filled |-> FALSE, total_casualties |-> 0]

\* the end of _run_time_series (the call of _calculate_metrics) and the
\* step of run_simulation to the next region or scenario
calculate_metrics ==
  /\ run.pc = "time_series"
  /\ run.year > run.end_year
  /\ \E outcome \in MetricsOutcomes(run) :
       LET series == [scenario |-> run.scenarios[run.scenario],
                      region |-> run.regions[run.region],
                      years |-> [i \in 1..Len(run.region_results) |->
                                   run.region_results[i].year],
                      casualties |->
                        [i \in 1..Len(run.region_results) |->
                           run.region_results[i].casualties],
                      metrics |-> returned_metrics(run, outcome)]
           last_region == run.region = Len(run.regions)
           last_scenario == run.scenario = Len(run.scenarios)
       IN  IF outcome = "KeyError"
           THEN run' = [run EXCEPT !.pc = "done", !.status = "KeyError",
                                   !.finished = Append(@, series)]
           ELSE IF last_region /\ last_scenario
           THEN run' = [run EXCEPT !.pc = "done", !.status = "returned",
                                   !.finished = Append(@, series)]
           ELSE run' = [run EXCEPT
                          !.finished = Append(@, series),
                          !.region = IF last_region THEN 1 ELSE @ + 1,
                          !.scenario = IF last_region THEN @ + 1 ELSE @,
                          !.year = run.start_year,
                          !.region_results = <<>>]
  /\ UNCHANGED <<gen, expo, dmg, rec, orch, repro, clim, warn, resp>>

(***************************************************************************)
(* BangladeshDisasterSimulation.run_simulation                             *)
(***************************************************************************)
\* config['hazards'] in insertion order: hazard type and intensity_scales
FloodConfig ==
  [hazard_type |-> "flood",
   intensity_scales |-> [depth |-> "meters", velocity |-> "m/s"]]

CycloneConfig ==
  [hazard_type |-> "cyclone",
   intensity_scales |-> [wind_speed |-> "km/h", storm_surge |-> "meters"]]

TypedConfig ==
  [hazard_type |-> "flood",
   intensity_scales |-> [type |-> "flood", depth |-> "meters"]]

HazardConfigs ==
  {<<>>, <<FloodConfig>>, <<FloodConfig, CycloneConfig>>, <<TypedConfig>>}

\* the scenarios argument of run_simulation
ScenarioArgs == {None, Given(<<"RCP8.5">>), Given(<<"RCP2.6", "SSP5">>)}

\* the years argument of run_simulation
YearsArgs == {5, 25}

ClimateScenarios == {"RCP4.5", "RCP8.5", "RCP2.6"}

default_scenarios(scenarios) ==
  IF ~scenarios.given THEN <<"RCP4.5", "RCP8.5">> ELSE scenarios.value

\* the scenario and decade apply_climate_scenarios reads its parameters for
climate_scenario(scenario) ==
  IF scenario \notin ClimateScenarios THEN "RCP4.5" ELSE scenario

climate_decade(year) ==
  LET decade == (year \div 10) * 10
  IN  IF decade < 2030 THEN 2030
      ELSE IF decade > 2050 THEN 2050
      ELSE decade

\* the intensity key calculate_damages reads for a hazard type
intensity_key(hazard_type) ==
  CASE hazard_type = "flood" -> "depth"
    [] hazard_type = "cyclone" -> "wind_speed"
    [] hazard_type = "earthquake" -> "magnitude"
    [] OTHER -> "intensity"

\* calculate_damages(self.exposure, hazard_intensity) as run_simulation
\* calls it: hazard_event is the intensity_scales dict and exposed_elements
\* is the ExposureModel object, which has no item access
placeholder_damages(hazard_intensity) ==
  IF "type" \notin DOMAIN hazard_intensity THEN "KeyError"
  ELSE IF intensity_key(hazard_intensity.type) \notin DOMAIN hazard_intensity
  THEN "KeyError"
  ELSE "TypeError"

OrchInit ==
  \E hz \in HazardConfigs, sa \in ScenarioArgs, ya \in YearsArgs :
    orch = [hazards |-> hz,
            years |-> ya,
            scenarios |-> default_scenarios(sa),
            start_year |-> BaseYear,
            end_year |-> LastYear,
            year |-> BaseYear,
            scenario |-> 1,
            hazard |-> 0,
            pc |-> "climate",
            climate |-> <<>>,
            log |-> <<>>,
            completed |-> [i \in 1..Len(default_scenarios(sa)) |-> <<>>],
            status |-> "running"]

\* step 1 of one (year, scenario) iteration: apply_climate_scenarios
run_apply_climate ==
  /\ orch.pc = "climate"
  /\ orch' = [orch EXCEPT
                !.climate = <<climate_scenario(orch.scenarios[orch.scenario]),
                              climate_decade(orch.year)>>,
                !.log = <<"apply_climate_scenarios">>,
                !.hazard = 1,
                !.pc = "hazards"]
  /\ UNCHANGED <<gen, expo, dmg, rec, run, repro, clim, warn, resp>>

\* the body of the loop over self.hazards for one hazard: the call of
\* calculate_damages raises, so the calls after it are not reached
run_hazard_body ==
  /\ orch.pc = "hazards"
  /\ orch.hazard <= Len(orch.hazards)
  /\ orch' = [orch EXCEPT
                !.log = Append(@, "calculate_damages"),
                !.status = placeholder_damages(
                             orch.hazards[orch.hazard].intensity_scales),
                !.pc = "done"]
  /\ UNCHANGED <<gen, expo, dmg, rec, run, repro, clim, warn, resp>>

\* the end of one (year, scenario) iteration: on to the next scenario, the
\* next year, or the end of the run after end_year
run_next_iteration ==
  /\ orch.pc = "hazards"
  /\ orch.hazard > Len(orch.hazards)
  /\ LET last_scenario == orch.scenario = Len(orch.scenarios)
         last_year == orch.year = orch.end_year
         done == [orch EXCEPT !.completed[orch.scenario] = Append(@, orch.year)]
     IN  IF last_scenario /\ last_year
         THEN orch' = [done EXCEPT !.pc = "done", !.status = "returned"]
         ELSE orch' = [done EXCEPT
                         !.scenario = IF last_scenario THEN 1 ELSE @ + 1,
                         !.year = IF last_scenario THEN @ + 1 ELSE @,
                         !.pc = "climate"]
  /\ UNCHANGED <<gen, expo, dmg, rec, run, repro, clim, warn, resp>>

SimulationInit ==
  /\ \/ RunInit /\ orch = Off
     \/ OrchInit /\ run = Off
  /\ gen = Idle /\ expo = Idle /\ dmg = Idle /\ rec = Idle /\ repro = Idle
  /\ clim = Idle /\ warn = Idle /\ resp = Idle

SimulationNext ==
  \/ runner_run_simulation
  \/ run_time_series
  \/ calculate_metrics
  \/ run_apply_climate
  \/ run_hazard_body
  \/ run_next_iteration

SpecSimulation == SimulationInit /\ [][SimulationNext]_vars

\* the years of a sequence are start, start + 1, ... in this order
InOrderFrom(years, start) ==
  \A i \in 1..Len(years) : years[i] = start + i - 1

\* the number of years of start..end
RangeLen(start, end) == Max(0, end - start + 1)

\* the part of C4 on SimulationRunner: the years of the running time series
\* and of every finished one are start_year, start_year + 1, ... each once,
\* the year in progress is the next one, and a finished time series has
\* every year up to end_year
RunnerYearsInOrder ==
  run.pc # "off" =>
    /\ run.pc = "time_series" =>
         LET years == [i \in 1..Len(run.region_results) |->
                         run.region_results[i].year]
         IN  /\ InOrderFrom(years, run.start_year)
             /\ run.year = run.start_year + Len(years)
             /\ Len(years) <= RangeLen(run.start_year, run.end_year)
    /\ \A k \in 1..Len(run.finished) :
         /\ InOrderFrom(run.finished[k].years, run.start_year)
         /\ Len(run.finished[k].years) = RangeLen(run.start_year, run.end_year)

\* the part of C4 on BangladeshDisasterSimulation: the completed years of
\* every scenario are 2025, 2026, ... each once, and a run that has ended
\* has completed every year up to end_year for every scenario
OrchestratorYearsInOrder ==
  orch.pc # "off" =>
    \A s \in 1..Len(orch.scenarios) :
      /\ InOrderFrom(orch.completed[s], orch.start_year)
      /\ Len(orch.completed[s]) <= RangeLen(orch.start_year, orch.end_year)
      /\ orch.pc = "done" =>
           Len(orch.completed[s]) = RangeLen(orch.start_year, orch.end_year)

\* C4: within one (scenario, region) run the years are simulated strictly in
\* increasing order, each year from start_year to end_year exactly once, a
\* year only after the previous year is complete, and the run ends after the
\* configured end year.
C4_YearsInOrderOnceToEndYear ==
  RunnerYearsInOrder /\ OrchestratorYearsInOrder

\* the stage order of one simulated year
StageOrder ==
  <<"update_exposure", "apply_climate_scenarios", "generate_events",
    "get_exposed_elements", "calculate_damages", "simulate_warning_process",
    "simulate_response", "simulate_recovery">>

StageRank(stage) == CHOOSE r \in 1..Len(StageOrder) : StageOrder[r] = stage

\* C5: in every simulated year the stages run in the order RegionStock
\* update, climate state, hazard event generation, then per event exposure,
\* damage, early warning, emergency response and recovery; no stage runs
\* before the stages that come before it in this order.
C5_StagesInPipelineOrder ==
  orch.pc # "off" =>
    \A i \in 1..Len(orch.log) :
      \A r \in 1..(StageRank(orch.log[i]) - 1) :
        \E j \in 1..(i - 1) : orch.log[j] = StageOrder[r]

\* C22: a configuration whose hazard list is empty is rejected with a fatal
\* error before the first year is simulated: no stage of any year runs, no
\* year is completed, and the run does not return as if it had succeeded.
C22_EmptyHazardListRejected ==
  (orch.pc # "off" /\ orch.hazards = <<>>) =>
    /\ orch.log = <<>>
    /\ \A s \in 1..Len(orch.scenarios) : orch.completed[s] = <<>>
    /\ orch.status # "returned"

\* the state the run with an empty hazard list ends in: it has returned
\* after completing every year of every scenario
EmptyRunReturned ==
  /\ orch.pc = "done"
  /\ orch.hazards = <<>>
  /\ orch.status = "returned"
  /\ \A s \in 1..Len(orch.scenarios) :
       Len(orch.completed[s]) = RangeLen(orch.start_year, orch.end_year)

\* the sum of a sequence of numbers
SumSeq(q) == SumOver([i \in 1..Len(q) |-> q[i]])

\* C23: when a (scenario, region) run finishes, its summary metrics are the
\* accumulation of that run's per-year outputs over every year from
\* start_year to end_year (total casualties is the sum of the yearly
\* casualties), and they are stored in the result entry of that (scenario,
\* region): the computation does not raise, every finished time series of
\* at least one year has a metrics dict whose total is the sum over its
\* years, and every year of the range is among them.
C23_MetricsAccumulateYearlyOutputs ==
  run.pc # "off" =>
    \A k \in 1..Len(run.finished) :
      LET f == run.finished[k]
      IN  /\ Len(f.years) = RangeLen(run.start_year, run.end_year)
          /\ f.metrics.kind = "dict"
          /\ Len(f.years) > 0 =>
               /\ f.metrics.filled
               /\ f.metrics.total_casualties = SumSeq(f.casualties)

\* a finished time series with casualties in some year whose metrics are
\* not a dict of totals
MetricsNotAccumulated ==
  /\ run.pc # "off"
  /\ \E k \in 1..Len(run.finished) :
       /\ SumSeq(run.finished[k].casualties) > 0
       /\ run.finished[k].metrics.kind # "dict"

(***************************************************************************)
(* Two executions with one configuration                                   *)
(***************************************************************************)
\* config['simulation']['random_seed'] of the default configuration
DefaultRandomSeed == 42

\* the random_seed of the user configuration: absent, or a seed
UserSeeds == {0, 7, 42}

\* _load_configuration: the user's keys of a section replace the defaults
load_configuration(user_seed) ==
  [random_seed |-> IF user_seed = 0 THEN DefaultRandomSeed ELSE user_seed,
   start_year |-> BaseYear,
   end_year |-> LastYear]

ReproPeriodLists == {<<1, 10>>, <<5, 10>>, <<2>>}

ReproInit ==
  \E seed \in UserSeeds, ht \in {"flood", "geophysical"},
     rps \in ReproPeriodLists :
    repro = [config |-> load_configuration(seed),
             model |-> [hazard_type |-> ht,
                        return_periods |-> rps,
                        spatial_patterns |-> SpatialPatternOf(ht),
                        seasonal_profile |-> SeasonalProfileOf(ht),
                        climate_effects |-> [given |-> FALSE,
                                             intensity_change |-> 0,
                                             frequency_change |-> 0]],
             first |-> <<>>,
             second |-> <<>>]

\* generate_events(start_year) in one execution of the program: the draws
\* come from the process-wide generator, which no code seeds
ExecutionEvents(r) ==
  LET n == Len(r.model.return_periods)
  IN  { GenerateEvents(r.model, r.config.start_year, u, s) :
          u \in [1..n -> Draws], s \in [1..n -> EventSamples(r.model.hazard_type)] }

first_execution ==
  /\ repro.first = <<>>
  /\ \E events \in ExecutionEvents(repro) :
       repro' = [repro EXCEPT !.first = <<events>>]
  /\ UNCHANGED <<gen, expo, dmg, rec, run, orch, clim, warn, resp>>

second_execution ==
  /\ repro.second = <<>>
  /\ \E events \in ExecutionEvents(repro) :
       repro' = [repro EXCEPT !.second = <<events>>]
  /\ UNCHANGED <<gen, expo, dmg, rec, run, orch, clim, warn, resp>>

ReproducibilityInit ==
  /\ ReproInit
  /\ gen = Idle /\ expo = Idle /\ dmg = Idle /\ rec = Idle
  /\ run = Idle /\ orch = Idle
  /\ clim = Idle /\ warn = Idle /\ resp = Idle

ReproducibilityNext == first_execution \/ second_execution

SpecReproducibility == ReproducibilityInit /\ [][ReproducibilityNext]_vars

\* C3: two executions with the same configuration, random seed included,
\* and the same inputs produce identical results: the events generated for
\* a year are the same in both.
C3_SameSeedSameEvents ==
  (repro.first # <<>> /\ repro.second # <<>>) => repro.first = repro.second

(***************************************************************************)
(* HazardModel.generate_events on degenerate configurations               *)
(***************************************************************************)
\* return_periods with entries at or below 1
DegeneratePeriodLists == {<<0>>, <<1>>, <<5, 0>>, <<-2, 1>>, <<1, 2>>}

\* climate_effects that lower the intensity
DegenerateEffects ==
  { [given |-> FALSE, intensity_change |-> 0, frequency_change |-> 0],
    [given |-> TRUE, intensity_change |-> -600000, frequency_change |-> 0] }

DegenerateGenInit ==
  \E ht \in HazardTypes, rps \in DegeneratePeriodLists,
     ce \in DegenerateEffects :
    gen = [hazard_type |-> ht,
           return_periods |-> rps,
           spatial_patterns |-> SpatialPatternOf(ht),
           seasonal_profile |-> SeasonalProfileOf(ht),
           climate_effects |-> ce,
           called |-> FALSE,
           raised |-> "none",
           year |-> 0,
           events |-> <<>>]

\* one call generate_events(year, climate_effects): 1.0 / return_period
\* raises for a return period of 0, else the events are built as always
generate_events_degenerate ==
  /\ ~gen.called
  /\ IF \E i \in 1..Len(gen.return_periods) : gen.return_periods[i] = 0
     THEN gen' = [gen EXCEPT !.called = TRUE, !.raised = "ZeroDivisionError"]
     ELSE \E year \in Years :
          \E u \in [1..Len(gen.return_periods) -> Draws] :
          \E s \in [1..Len(gen.return_periods) -> EventSamples(gen.hazard_type)] :
             /\ \A i \in 1..Len(gen.return_periods) :
                  u[i] >= annual_prob(gen.return_periods[i], gen.climate_effects)
                    => s[i] = CHOOSE x \in EventSamples(gen.hazard_type) : TRUE
             /\ gen' = [gen EXCEPT !.called = TRUE,
                                   !.year = year,
                                   !.events = GenerateEvents(gen, year, u, s)]
  /\ UNCHANGED <<expo, dmg, rec, run, orch, repro, clim, warn, resp>>

HazardDegenerateInit ==
  /\ DegenerateGenInit
  /\ expo = Idle /\ dmg = Idle /\ rec = Idle
  /\ run = Idle /\ orch = Idle /\ repro = Idle
  /\ clim = Idle /\ warn = Idle /\ resp = Idle

HazardDegenerateNext == generate_events_degenerate

SpecHazardDegenerate == HazardDegenerateInit /\ [][HazardDegenerateNext]_vars

\* the numeric attributes of an event that the claim names
NonNegativeAttributes(event) ==
  /\ event.intensity >= 0
  /\ \A k \in {"depth", "wind_speed", "storm_surge", "rainfall_intensity"} :
       k \in DOMAIN event.attrs => event.attrs[k] >= 0

\* C11: generate_events never raises and never emits a negative intensity
\* or a negative depth, wind_speed, storm_surge or rainfall_intensity for
\* degenerate inputs such as return_period <= 1.
C11_NoRaiseNoNegativeIntensity ==
  gen.called =>
    /\ gen.raised = "none"
    /\ \A i \in 1..Len(gen.events) : NonNegativeAttributes(gen.events[i])

(***************************************************************************)
(* ClimateChangeModel                                                      *)
(***************************************************************************)
AnchorYears == {2030, 2040, 2050}

\* a by-decade entry of the scenario table, written in hundredths
Decades(a, b, c) ==
  [d \in AnchorYears |->
     (IF d = 2030 THEN a ELSE IF d = 2040 THEN b ELSE c) * 10000]

\* a by-decade entry of seasonal values [pre-monsoon, monsoon,
\* post-monsoon, winter], written in hundredths
SeasonalDecades(a, b, c) ==
  [d \in AnchorYears |->
     LET v == IF d = 2030 THEN a ELSE IF d = 2040 THEN b ELSE c
     IN  [i \in 1..4 |-> v[i] * 10000]]

\* the pathways in the order RCP2.6, RCP8.5 swapped
scenarios_swapped ==
  [s \in ClimateScenarios |->
     CASE s = "RCP4.5" ->
            [temperature_increase |-> Decades(80, 110, 140),
             precipitation_change |->
               SeasonalDecades(<<5, 8, 4, -2>>, <<8, 12, 6, -3>>, <<10, 15, 8, -5>>),
             sea_level_rise |-> Decades(12, 22, 32),
             cyclone_intensity_factor |-> Decades(5, 8, 12),
             drought_frequency_factor |-> Decades(10, 15, 20),
             extreme_rainfall_factor |-> Decades(7, 12, 18)]
       [] s = "RCP2.6" ->
            [temperature_increase |-> Decades(100, 160, 220),
             precipitation_change |->
               SeasonalDecades(<<7, 11, 6, -4>>, <<12, 18, 9, -8>>, <<18, 25, 12, -12>>),
             sea_level_rise |-> Decades(15, 30, 45),
             cyclone_intensity_factor |-> Decades(8, 15, 25),
             drought_frequency_factor |-> Decades(15, 25, 35),
             extreme_rainfall_factor |-> Decades(10, 20, 30)]
       [] s = "RCP8.5" ->
            [temperature_increase |-> Decades(60, 80, 90),
             precipitation_change |->
               SeasonalDecades(<<3, 5, 2, -1>>, <<5, 7, 3, -2>>, <<6, 8, 4, -2>>),
             sea_level_rise |-> Decades(10, 18, 24),
             cyclone_intensity_factor |-> Decades(3, 5, 7),
             drought_frequency_factor |-> Decades(5, 8, 10),
             extreme_rainfall_factor |-> Decades(5, 7, 9)]]

\* self.scenarios
scenarios ==
  [s \in ClimateScenarios |->
     CASE s = "RCP4.5" ->
            [temperature_increase |-> Decades(80, 110, 140),
             precipitation_change |->
               SeasonalDecades(<<5, 8, 4, -2>>, <<8, 12, 6, -3>>, <<10, 15, 8, -5>>),
             sea_level_rise |-> Decades(12, 22, 32),
             cyclone_intensity_factor |-> Decades(5, 8, 12),
             drought_frequency_factor |-> Decades(10, 15, 20),
             extreme_rainfall_factor |-> Decades(7, 12, 18)]
       [] s = "RCP8.5" ->
            [temperature_increase |-> Decades(100, 160, 220),
             precipitation_change |->
               SeasonalDecades(<<7, 11, 6, -4>>, <<12, 18, 9, -8>>, <<18, 25, 12, -12>>),
             sea_level_rise |-> Decades(15, 30, 45),
             cyclone_intensity_factor |-> Decades(8, 15, 25),
             drought_frequency_factor |-> Decades(15, 25, 35),
             extreme_rainfall_factor |-> Decades(10, 20, 30)]
       [] s = "RCP2.6" ->
            [temperature_increase |-> Decades(60, 80, 90),
             precipitation_change |->
               SeasonalDecades(<<3, 5, 2, -1>>, <<5, 7, 3, -2>>, <<6, 8, 4, -2>>),
             sea_level_rise |-> Decades(10, 18, 24),
             cyclone_intensity_factor |-> Decades(3, 5, 7),
             drought_frequency_factor |-> Decades(5, 8, 10),
             extreme_rainfall_factor |-> Decades(5, 7, 9)]]

ScalarParameters ==
  {"temperature_increase", "sea_level_rise", "cyclone_intensity_factor",
   "drought_frequency_factor", "extreme_rainfall_factor"}

\* the decade get_annual_climate_parameters interpolates towards
annual_decade(year) ==
  IF year <= 2030 THEN 2030 ELSE IF year <= 2040 THEN 2040 ELSE 2050

\* (year - 2030) / 5 or (year - 2040) / 5: half the span of a decade
interpolation_factor_half_span(year) ==
  IF year <= 2030 THEN ((year - 2025) * SC) \div 5
  ELSE IF year <= 2040 THEN ((year - 2030) * SC) \div 5
  ELSE ((year - 2040) * SC) \div 5

\* (year - 2025) / 5 up to 2030, then the fraction of the decade elapsed
interpolation_factor(year) ==
  IF year <= 2030 THEN ((year - 2025) * SC) \div 5
  ELSE IF year <= 2040 THEN ((year - 2030) * SC) \div 10
  ELSE ((year - 2040) * SC) \div 10

\* prev + (decade - prev) * interpolation_factor
interpolate(prev, decade, factor) == prev + Mul(decade - prev, factor)

\* the value a by-decade entry is interpolated from: 0 for the first
\* decade, else the entry of the previous decade
previous_value(entry, year) ==
  IF annual_decade(year) = 2030 THEN 0 ELSE entry[annual_decade(year) - 10]

\* the dictionary get_annual_climate_parameters(year, scenario) returns
annual_climate_parameters(year, scenario) ==
  LET table == scenarios[climate_scenario(scenario)]
      decade == annual_decade(year)
      factor == interpolation_factor(year)
      scalar(p) == interpolate(previous_value(table[p], year),
                               table[p][decade], factor)
      precipitation == table.precipitation_change
  IN  [temperature_increase |-> scalar("temperature_increase"),
       sea_level_rise |-> scalar("sea_level_rise"),
       precipitation_change |->
         [i \in 1..4 |->
            interpolate(IF decade = 2030 THEN 0
                        ELSE precipitation[decade - 10][i],
                        precipitation[decade][i], factor)],
       cyclone_intensity_factor |-> scalar("cyclone_intensity_factor"),
       drought_frequency_factor |-> scalar("drought_frequency_factor"),
       extreme_rainfall_factor |-> scalar("extreme_rainfall_factor")]


\* self.regional_sensitivity, in thousandths
regional_sensitivity(region) ==
  LET r(slr, cyc, sal, fl, dr) ==
        [sea_level_rise |-> slr * 1000, cyclone |-> cyc * 1000,
         salinity |-> sal * 1000, flood |-> fl * 1000, drought |-> dr * 1000]
  IN  CASE region = "coastal" -> r(1000, 1000, 1000, 700, 500)
        [] region = "floodplain" -> r(300, 600, 500, 1000, 700)
        [] region = "haor_basin" -> r(100, 400, 200, 900, 500)
        [] region = "barind_tract" -> r(0, 200, 100, 300, 1000)
        [] region = "hill_tracts" -> r(0, 300, 0, 400, 700)
        [] region = "urban" -> r(500, 700, 300, 800, 600)
        \* an unknown region uses the floodplain factors
        [] OTHER -> r(300, 600, 500, 1000, 700)

\* the decade the modular apply_climate_scenarios reads
effects_decade(year) ==
  IF year <= 2030 THEN 2030 ELSE IF year <= 2040 THEN 2040 ELSE 2050

\* the effects the modular apply_climate_scenarios(year, scenario, region,
\* hazard_type) returns
climate_effects_for(year, scenario, region, hazard_type) ==
  LET table == scenarios[climate_scenario(scenario)]
      decade == effects_decade(year)
      region_factors == regional_sensitivity(region)
      monsoon_change == table.precipitation_change[decade][2]
      winter_precip_change == table.precipitation_change[decade][4]
      slr == table.sea_level_rise[decade]
      temp_increase == table.temperature_increase[decade]
      cyclone_intensity_factor == table.cyclone_intensity_factor[decade]
      extreme_rainfall_factor == table.extreme_rainfall_factor[decade]
  IN  CASE hazard_type = "flood" ->
             [intensity_change |->
                Mul(monsoon_change, region_factors.flood)
                  + (IF region = "coastal" THEN Mul(slr, 500000) ELSE 0),
              frequency_change |->
                Mul(extreme_rainfall_factor, region_factors.flood),
              duration_change |-> Mul(monsoon_change, 300000)]
        [] hazard_type = "cyclone" ->
             [intensity_change |->
                Mul(cyclone_intensity_factor, region_factors.cyclone),
              frequency_change |->
                Mul(Mul(cyclone_intensity_factor, 500000), region_factors.cyclone),
              surge_amplification |->
                IF region = "coastal" THEN Mul(slr, 1500000) ELSE 0]
        [] hazard_type = "drought" ->
             [intensity_change |->
                Mul(Mul(temp_increase, 200000), region_factors.drought)
                  - (IF winter_precip_change < 0
                     THEN Mul(winter_precip_change, region_factors.drought)
                     ELSE 0),
              frequency_change |->
                Mul(table.drought_frequency_factor[decade], region_factors.drought)]
        [] hazard_type = "landslide" ->
             IF region = "hill_tracts"
             THEN [intensity_change |-> Mul(extreme_rainfall_factor, 800000),
                   frequency_change |-> Mul(extreme_rainfall_factor, 1200000)]
             ELSE [intensity_change |-> 0, frequency_change |-> 0]
        [] hazard_type = "salinity" ->
             IF region \in {"coastal", "floodplain"}
             THEN [intensity_change |->
                     Mul(Mul(slr, 700000), region_factors.salinity),
                   inland_intrusion_km |-> 5 * slr]
             ELSE [intensity_change |-> 0, inland_intrusion_km |-> 0]
        [] hazard_type = "erosion" ->
             IF region \in {"floodplain", "coastal", "haor_basin"}
             THEN [intensity_change |->
                     Mul(monsoon_change + extreme_rainfall_factor, 500000),
                   frequency_change |-> Mul(extreme_rainfall_factor, 300000)]
             ELSE [intensity_change |-> 0, frequency_change |-> 0]
        [] OTHER ->
             [intensity_change |-> Mul(temp_increase, 100000),
              frequency_change |-> Mul(temp_increase, 50000)]

\* climate_params of the single-file apply_climate_scenarios: the anchor
\* values of the decade climate_decade(year)
climate_params(year, scenario) ==
  LET table == scenarios[climate_scenario(scenario)]
      decade == climate_decade(year)
  IN  [temperature_increase |-> table.temperature_increase[decade],
       precipitation_change |-> table.precipitation_change[decade],
       sea_level_rise |-> table.sea_level_rise[decade],
       cyclone_intensity_factor |-> table.cyclone_intensity_factor[decade],
       drought_frequency_factor |-> table.drought_frequency_factor[decade],
       extreme_rainfall_factor |-> table.extreme_rainfall_factor[decade]]

\* intensity_change and frequency_change of the effects the single-file
\* apply_climate_scenarios computes for one hazard model
hazard_climate_effects(hazard_type, params) ==
  LET precip_change_factor ==
        Mul(300000, params.precipitation_change[1])
          + Mul(700000, params.precipitation_change[2])
      sst_impact == Mul(800000, params.temperature_increase) \div 2
      drought_intensity ==
        -params.precipitation_change[4]
          + Mul(150000, params.temperature_increase)
          - Mul(500000, params.precipitation_change[1])
  IN  CASE hazard_type = "flood" ->
             [intensity_change |->
                precip_change_factor + params.extreme_rainfall_factor
                  + Mul(500000, params.sea_level_rise)
                  + Mul(100000, params.temperature_increase),
              frequency_change |->
                Mul(700000, params.extreme_rainfall_factor)
                  + Mul(300000, precip_change_factor)]
        [] hazard_type = "cyclone" ->
             [intensity_change |-> params.cyclone_intensity_factor + sst_impact,
              frequency_change |-> -50000 + Mul(100000, sst_impact)]
        [] hazard_type = "drought" ->
             [intensity_change |-> drought_intensity,
              frequency_change |-> params.drought_frequency_factor]
        [] hazard_type = "sea_level_rise" ->
             [sea_level_rise_m |-> params.sea_level_rise,
              salinity_intrusion_km |-> 2 * params.sea_level_rise]
        [] OTHER -> [intensity_change |-> 50000, frequency_change |-> 50000]


\* years, pathway names, regions and hazard types the climate functions
\* are called with
ClimateYears == 2025..2057

ScenarioNames == ClimateScenarios \cup {"SSP5-8.5"}

EffectYears == {2025, 2030, 2031, 2045, 2060}

EffectRegions == {"coastal", "hill_tracts", "barind_tract", "delta"}

EffectHazards ==
  {"flood", "cyclone", "drought", "landslide", "salinity", "erosion",
   "heatwave"}

SingleFileHazards == {"flood", "cyclone", "drought", "sea_level_rise", "landslide"}

ClimInit ==
  clim = [function |-> "none", year |-> 0, scenario |-> "", region |-> "",
          hazard_type |-> "", result |-> <<>>, signalled |-> FALSE]

\* one call get_annual_climate_parameters(year, scenario)
get_annual_climate_parameters ==
  /\ clim.function = "none"
  /\ \E year \in ClimateYears, scenario \in ScenarioNames :
       clim' = [function |-> "get_annual_climate_parameters",
                year |-> year, scenario |-> scenario,
                region |-> "", hazard_type |-> "",
                result |-> annual_climate_parameters(year, scenario),
                signalled |-> FALSE]
  /\ UNCHANGED <<gen, expo, dmg, rec, run, orch, repro, warn, resp>>

\* one call apply_climate_scenarios(year, scenario, region, hazard_type)
\* of the climate module
apply_climate_scenarios ==
  /\ clim.function = "none"
  /\ \E year \in EffectYears, scenario \in ScenarioNames,
        region \in EffectRegions, hazard_type \in EffectHazards :
       clim' = [function |-> "apply_climate_scenarios",
                year |-> year, scenario |-> scenario,
                region |-> region, hazard_type |-> hazard_type,
                result |-> climate_effects_for(year, scenario, region, hazard_type),
                signalled |-> FALSE]
  /\ UNCHANGED <<gen, expo, dmg, rec, run, orch, repro, warn, resp>>

\* one call apply_climate_scenarios(hazards, year, scenario) of the
\* single-file program with one hazard model; it prints a warning for an
\* unknown scenario
apply_climate_scenarios_single_file ==
  /\ clim.function = "none"
  /\ \E year \in EffectYears, scenario \in ScenarioNames,
        hazard_type \in SingleFileHazards :
       clim' = [function |-> "apply_climate_scenarios_single_file",
                year |-> year, scenario |-> scenario,
                region |-> "", hazard_type |-> hazard_type,
                result |-> [climate_params |-> climate_params(year, scenario),
                            climate_effects |->
                              hazard_climate_effects(hazard_type,
                                climate_params(year, scenario))],
                signalled |-> scenario \notin ClimateScenarios]
  /\ UNCHANGED <<gen, expo, dmg, rec, run, orch, repro, warn, resp>>

ClimateInit ==
  /\ ClimInit
  /\ gen = Idle /\ expo = Idle /\ dmg = Idle /\ rec = Idle
  /\ run = Idle /\ orch = Idle /\ repro = Idle
  /\ warn = Idle /\ resp = Idle

ClimateNext ==
  \/ get_annual_climate_parameters
  \/ apply_climate_scenarios
  \/ apply_climate_scenarios_single_file

SpecClimate == ClimateInit /\ [][ClimateNext]_vars

\* the values of a returned parameter dictionary next to the anchors they
\* are interpolated between: from (0 for the first decade), to, and the
\* 2050 anchor
ParameterPoints(result, table, year) ==
  LET decade == annual_decade(year)
  IN  { [value |-> result[p],
         from |-> IF decade = 2030 THEN 0 ELSE table[p][decade - 10],
         to |-> table[p][decade],
         at2030 |-> table[p][2030],
         at2040 |-> table[p][2040],
         at2050 |-> table[p][2050]] : p \in ScalarParameters }
      \cup
      { [value |-> result.precipitation_change[i],
         from |-> IF decade = 2030 THEN 0
                  ELSE table.precipitation_change[decade - 10][i],
         to |-> table.precipitation_change[decade][i],
         at2030 |-> table.precipitation_change[2030][i],
         at2040 |-> table.precipitation_change[2040][i],
         at2050 |-> table.precipitation_change[2050][i]] : i \in 1..4 }

AnnualPoints ==
  ParameterPoints(clim.result, scenarios[climate_scenario(clim.scenario)],
                  clim.year)

StrictlyBetween(v, a, b) == Min(a, b) < v /\ v < Max(a, b)

Between(v, a, b) == Min(a, b) <= v /\ v <= Max(a, b)

\* C13: for every pathway and every climate parameter,
\* get_annual_climate_parameters returns at year 2030 exactly the pathway's
\* 2030 table value and at year 2035 a value strictly between the
\* pathway's 2030 and 2040 table values.
C13_ExactAt2030BetweenAt2035 ==
  clim.function = "get_annual_climate_parameters" =>
    /\ clim.year = 2030 => \A pt \in AnnualPoints : pt.value = pt.at2030
    /\ clim.year = 2035 =>
         \A pt \in AnnualPoints : StrictlyBetween(pt.value, pt.at2030, pt.at2040)

\* the high pathway at 2035: 1.3 degrees between 1.0 and 1.6, and a winter
\* precipitation change of -0.06 between -0.04 and -0.08
C13_Witness ==
  /\ clim.function = "get_annual_climate_parameters"
  /\ clim.year = 2035
  /\ clim.scenario = "RCP8.5"
  /\ clim.result.temperature_increase = 1300000
  /\ clim.result.precipitation_change[4] = -60000

\* C14: for a year at or above 2050 every parameter equals the 2050
\* anchor, years 2025 to 2030 blend linearly from zero to the 2030 anchor,
\* and no value lies outside the interval spanned by its two bracketing
\* anchors.
C14_ClampedToAnchorRange ==
  clim.function = "get_annual_climate_parameters" =>
    \A pt \in AnnualPoints :
      /\ clim.year >= 2050 => pt.value = pt.at2050
      /\ clim.year \in 2025..2030 =>
           pt.value = Mul(pt.at2030, ((clim.year - 2025) * SC) \div 5)
      /\ Between(pt.value, pt.from, pt.to)

\* the result of the call made with the intermediate pathway instead
ResultWithRcp45 ==
  CASE clim.function = "get_annual_climate_parameters" ->
         annual_climate_parameters(clim.year, "RCP4.5")
    [] clim.function = "apply_climate_scenarios" ->
         climate_effects_for(clim.year, "RCP4.5", clim.region, clim.hazard_type)
    [] clim.function = "apply_climate_scenarios_single_file" ->
         [climate_params |-> climate_params(clim.year, "RCP4.5"),
          climate_effects |->
            hazard_climate_effects(clim.hazard_type,
                                   climate_params(clim.year, "RCP4.5"))]

\* C15: for a pathway name that is not a known pathway the climate
\* functions return exactly the result of RCP4.5 and signal the fallback.
C15_FallbackIsRcp45AndSignalled ==
  (clim.function # "none" /\ clim.scenario \notin ClimateScenarios) =>
    /\ clim.result = ResultWithRcp45
    /\ clim.signalled

\* the numeric half of C15 alone
FallbackIsRcp45 ==
  (clim.function # "none" /\ clim.scenario \notin ClimateScenarios) =>
    clim.result = ResultWithRcp45


\* the pathways from the mildest to the most severe
PathwayOrder == <<"RCP2.6", "RCP4.5", "RCP8.5">>

\* the values of one factor at one anchor year, by pathway in PathwayOrder
ScalarByPathway(p, decade) ==
  [k \in 1..3 |-> scenarios[PathwayOrder[k]][p][decade]]

SeasonalByPathway(i, decade) ==
  [k \in 1..3 |-> scenarios[PathwayOrder[k]].precipitation_change[decade][i]]

NonDecreasing(v) == v[1] <= v[2] /\ v[2] <= v[3]

NonIncreasing(v) == v[1] >= v[2] /\ v[2] >= v[3]

\* the values get_annual_climate_parameters returned for an anchor year,
\* each next to the table values of its factor by pathway
AnchorPoints ==
  { [value |-> clim.result[p],
     by_pathway |-> ScalarByPathway(p, clim.year),
     winter |-> FALSE] : p \in ScalarParameters }
  \cup
  { [value |-> clim.result.precipitation_change[i],
     by_pathway |-> SeasonalByPathway(i, clim.year),
     winter |-> i = 4] : i \in 1..4 }

PathwayRank(scenario) == CHOOSE k \in 1..3 : PathwayOrder[k] = scenario

AtAnchor ==
  /\ clim.function = "get_annual_climate_parameters"
  /\ clim.year \in AnchorYears
  /\ clim.scenario \in ClimateScenarios

\* the value returned for a pathway is at least the table value of every
\* milder pathway and at most that of every more severe one
RisesWithSeverity(pt) ==
  /\ NonDecreasing(pt.by_pathway)
  /\ \A k \in 1..3 :
       /\ k < PathwayRank(clim.scenario) => pt.by_pathway[k] <= pt.value
       /\ k > PathwayRank(clim.scenario) => pt.value <= pt.by_pathway[k]

FallsWithSeverity(pt) ==
  /\ NonIncreasing(pt.by_pathway)
  /\ \A k \in 1..3 :
       /\ k < PathwayRank(clim.scenario) => pt.by_pathway[k] >= pt.value
       /\ k > PathwayRank(clim.scenario) => pt.value >= pt.by_pathway[k]

\* C16 as stated: for each anchor year and each climate factor of the
\* scenario table, each seasonal precipitation change included, the value
\* is non-decreasing from RCP2.6 to RCP4.5 to RCP8.5.
C16_AllFactorsNonDecreasing ==
  AtAnchor => \A pt \in AnchorPoints : RisesWithSeverity(pt)

\* C16 as amended: every factor is non-decreasing from RCP2.6 to RCP4.5 to
\* RCP8.5 except the winter precipitation change, which is negative and
\* non-increasing (drier winters with the severity of the pathway).
C16_NonDecreasingExceptWinter ==
  AtAnchor =>
    \A pt \in AnchorPoints :
      IF pt.winter THEN FallsWithSeverity(pt) /\ pt.value < 0
      ELSE RisesWithSeverity(pt)

\* the high pathway read at the anchor year 2040: 1.6 degrees against 1.1
\* and 0.8, and a winter precipitation change of -0.08 against -0.03
C16_Witness ==
  /\ clim.function = "get_annual_climate_parameters"
  /\ clim.year = 2040
  /\ clim.scenario = "RCP8.5"
  /\ clim.result.temperature_increase = ScalarByPathway("temperature_increase", 2040)[3]
  /\ clim.result.temperature_increase > ScalarByPathway("temperature_increase", 2040)[2]
  /\ clim.result.precipitation_change[4] = -80000
  /\ clim.result.precipitation_change[4] < SeasonalByPathway(4, 2040)[2]


(***************************************************************************)
(* EarlyWarningModel and EmergencyResponseModel                            *)
(***************************************************************************)
\* key in dict and dict[key]
Flag(d, key) == key \in DOMAIN d /\ d[key]

Clamp(lo, hi, v) == Min(hi, Max(lo, v))

dissemination_systems ==
  [sirens |->
     [coverage |-> 150000, reliability |-> 800000, comprehension |-> 950000,
      urban_bias |-> 700000],
   sms |->
     [coverage |-> 700000, reliability |-> 850000, comprehension |-> 800000,
      urban_bias |-> 600000, literacy_dependent |-> TRUE],
   radio |->
     [coverage |-> 850000, reliability |-> 900000, comprehension |-> 850000,
      urban_bias |-> 200000, literacy_dependent |-> FALSE],
   television |->
     [coverage |-> 600000, reliability |-> 850000, comprehension |-> 900000,
      urban_bias |-> 500000, electricity_dependent |-> TRUE],
   volunteer_network |->
     [coverage |-> 550000, reliability |-> 750000, comprehension |-> 950000,
      urban_bias |-> -300000, training_dependent |-> TRUE],
   mosque_announcements |->
     [coverage |-> 900000, reliability |-> 700000, comprehension |-> 950000,
      urban_bias |-> -100000, time_of_day_dependent |-> TRUE]]

\* list(self.dissemination_systems.keys())
SystemNames ==
  <<"sirens", "sms", "radio", "television", "volunteer_network",
    "mosque_announcements">>

evacuation_behavior ==
  [compliance_base_rate |-> 650000,
   gender_factor |-> [male |-> SC, female |-> 850000],
   age_factor |-> [child |-> 1100000, adult |-> SC, elderly |-> 750000],
   income_factor |-> [low |-> 850000, medium |-> SC, high |-> 1100000],
   previous_experience |->
     [none |-> 900000, false_alarm |-> 700000, minor_impact |-> 1100000,
      major_impact |-> 1300000],
   warning_specificity_factor |->
     [generic |-> 800000, location_specific |-> SC, impact_based |-> 1200000],
   warning_lead_time_factor |->
     [very_short |-> 800000, short |-> 900000, adequate |-> 1100000,
      long |-> SC],
   livelihood_factor |->
     [agriculture |-> 800000, fishing |-> 850000, business |-> 900000,
      service |-> SC, government |-> 1100000]]

regional_ews_capacity ==
  [coastal |-> 800000, urban |-> 700000, flood_plain |-> 600000,
   haor_basin |-> 500000, char_lands |-> 400000, hill_tracts |-> 400000,
   barind_tract |-> 500000]

\* hazard types with an entry in self.forecast_skill
ForecastHazards == {"flood", "flash_flood", "cyclone", "storm_surge", "drought"}

\* the values np.random.choice can return for the forecast lead time, in
\* the unit of the hazard type (days, hours or months), fixed point
lead_time_choices(hazard_event) ==
  CASE hazard_event.type = "flood" ->
         IF "duration" \in DOMAIN hazard_event /\ hazard_event.duration > 2 * SC
         THEN {5 * SC, 7 * SC, 10 * SC} ELSE {SC, 3 * SC, 5 * SC}
    [] hazard_event.type = "flash_flood" -> {SC, 3 * SC, 6 * SC}
    [] hazard_event.type = "cyclone" -> {48 * SC, 72 * SC, 96 * SC}
    [] hazard_event.type = "storm_surge" -> {12 * SC, 24 * SC, 36 * SC}
    [] hazard_event.type = "drought" -> {500000, SC, 2 * SC}
    [] OTHER -> {SC}

\* the weight of one dissemination system for the hazard type
system_weight(hazard_type, system_name) ==
  CASE hazard_type = "cyclone"
         /\ system_name \in {"sirens", "radio", "volunteer_network"} -> 1500000
    [] hazard_type = "flood"
         /\ system_name \in {"radio", "television", "mosque_announcements"} ->
         1300000
    [] OTHER -> SC

\* base_effectiveness of one system in _calculate_dissemination_effectiveness
base_effectiveness(system_capabilities, region_type, system_name) ==
  LET system == dissemination_systems[system_name]
      b0 == Mul(Mul(system.coverage, system.reliability), system.comprehension)
      b1 == CASE region_type = "urban" -> Mul(b0, SC + system.urban_bias)
              [] region_type # "urban" /\ system.urban_bias < 0 ->
                   Mul(b0, SC - system.urban_bias)
              [] OTHER -> b0
      b2 == IF Flag(system, "literacy_dependent")
            THEN Mul(b1, 500000
                         + Mul(500000,
                               Get(system_capabilities, "literacy_rate", 600000)))
            ELSE b1
      b3 == IF Flag(system, "electricity_dependent")
            THEN Mul(b2, Get(system_capabilities, "electricity_reliability",
                             700000))
            ELSE b2
  IN  IF Flag(system, "time_of_day_dependent") THEN Mul(b3, 800000) ELSE b3

RECURSIVE total_effectiveness(_, _, _, _)
\* total_effectiveness summed over available_systems
total_effectiveness(system_capabilities, region_type, hazard_type, systems) ==
  IF systems = <<>> THEN 0
  ELSE (IF Head(systems) \in DOMAIN dissemination_systems
        THEN Mul(base_effectiveness(system_capabilities, region_type,
                                    Head(systems)),
                 system_weight(hazard_type, Head(systems)))
        ELSE 0)
       + total_effectiveness(system_capabilities, region_type, hazard_type,
                             Tail(systems))

RECURSIVE total_weight(_, _)
\* total_weight summed over available_systems
total_weight(hazard_type, systems) ==
  IF systems = <<>> THEN 0
  ELSE (IF Head(systems) \in DOMAIN dissemination_systems
        THEN system_weight(hazard_type, Head(systems)) ELSE 0)
       + total_weight(hazard_type, Tail(systems))

\* overall_effectiveness bounded to [0.05, 0.95]; the quotient is taken on
\* eighths so that the divisor stays in range
normalized_effectiveness(effectiveness, weight) ==
  Clamp(50000, 950000,
        IF weight > 0 THEN DivN(effectiveness \div 8, weight \div 8) ELSE 0)

\* EarlyWarningModel._calculate_dissemination_effectiveness of the package
calculate_dissemination_effectiveness(system_capabilities, region_type, hazard_type) ==
  normalized_effectiveness(
    total_effectiveness(
      system_capabilities, region_type, hazard_type,
      Get(system_capabilities, "available_systems",
          <<"radio", "volunteer_network">>)),
    total_weight(
      hazard_type,
      Get(system_capabilities, "available_systems",
          <<"radio", "volunteer_network">>)))

\* EarlyWarningModel._categorize_lead_time of the package
categorize_lead_time(hazard_type, lead_time) ==
  LET Category(a, b, c) ==
        CASE lead_time < a -> "very_short"
          [] lead_time >= a /\ lead_time < b -> "short"
          [] lead_time >= b /\ lead_time < c -> "adequate"
          [] OTHER -> "long"
  IN  CASE hazard_type \in {"cyclone", "storm_surge"} ->
             Category(6 * SC, 24 * SC, 72 * SC)
        [] hazard_type = "flood" -> Category(SC, 3 * SC, 7 * SC)
        [] hazard_type = "flash_flood" -> Category(3 * SC, 6 * SC, 12 * SC)
        [] hazard_type = "drought" -> Category(500000, SC, 3 * SC)
        [] OTHER -> "adequate"

\* the four demographic adjustments of _calculate_population_response
demographic_adjustment ==
  LET eb == evacuation_behavior
      gender_adjustment ==
        Mul(500000, eb.gender_factor.male) + Mul(500000, eb.gender_factor.female)
      age_adjustment ==
        Mul(300000, eb.age_factor.child) + Mul(600000, eb.age_factor.adult)
        + Mul(100000, eb.age_factor.elderly)
      income_adjustment ==
        Mul(400000, eb.income_factor.low) + Mul(500000, eb.income_factor.medium)
        + Mul(100000, eb.income_factor.high)
      livelihood_adjustment ==
        Mul(400000, eb.livelihood_factor.agriculture)
        + Mul(100000, eb.livelihood_factor.fishing)
        + Mul(300000, eb.livelihood_factor.business)
        + Mul(150000, eb.livelihood_factor.service)
        + Mul(50000, eb.livelihood_factor.government)
  IN  Mul(Mul(Mul(gender_adjustment, age_adjustment), income_adjustment),
          livelihood_adjustment)

\* EarlyWarningModel._calculate_population_response of the package
calculate_population_response(hazard_type, hazard_intensity, lead_time, dissemination_effectiveness, region_type, system_capabilities) ==
  LET eb == evacuation_behavior
      intensity_factor == 700000 + Mul(600000, hazard_intensity)
      lead_time_factor ==
        eb.warning_lead_time_factor[categorize_lead_time(hazard_type, lead_time)]
      specificity_factor ==
        Get(eb.warning_specificity_factor,
            Get(system_capabilities, "warning_specificity", "generic"), SC)
      experience_factor ==
        Get(eb.previous_experience,
            Get(system_capabilities, "previous_experience", "none"), SC)
      region_factor ==
        CASE region_type = "coastal" /\ hazard_type = "cyclone" -> 1200000
          [] region_type = "flood_plain" /\ hazard_type = "flood" -> 1100000
          [] OTHER -> SC
      response_rate ==
        Mul(Mul(Mul(Mul(Mul(Mul(eb.compliance_base_rate, intensity_factor),
                            lead_time_factor),
                        specificity_factor),
                    experience_factor),
                region_factor),
            dissemination_effectiveness)
  IN  Clamp(50000, 950000, Mul(response_rate, demographic_adjustment))


\* self.forecast_skill of the package, by hazard type and lead time
forecast_skill_package(hazard_type, lead_time) ==
  LET Skill(times, skills) ==
        skills[CHOOSE i \in 1..5 : times[i] = lead_time]
  IN  CASE hazard_type = "flood" ->
             Skill(<<SC, 3 * SC, 5 * SC, 7 * SC, 10 * SC>>,
                   <<850000, 750000, 650000, 550000, 450000>>)
        [] hazard_type = "flash_flood" ->
             Skill(<<SC, 3 * SC, 6 * SC, 12 * SC, 24 * SC>>,
                   <<600000, 550000, 500000, 400000, 300000>>)
        [] hazard_type = "cyclone" ->
             Skill(<<24 * SC, 48 * SC, 72 * SC, 96 * SC, 120 * SC>>,
                   <<750000, 650000, 550000, 450000, 350000>>)
        [] hazard_type = "storm_surge" ->
             Skill(<<6 * SC, 12 * SC, 24 * SC, 36 * SC, 48 * SC>>,
                   <<700000, 650000, 500000, 350000, 250000>>)
        [] hazard_type = "drought" ->
             Skill(<<500000, SC, 2 * SC, 3 * SC, 6 * SC>>,
                   <<650000, 550000, 450000, 350000, 250000>>)

\* self.forecast_skill of the single file
forecast_skill_single_file(hazard_type, lead_time) ==
  LET Skill(times, skills) ==
        skills[CHOOSE i \in 1..5 : times[i] = lead_time]
  IN  CASE hazard_type = "flood" ->
             Skill(<<SC, 3 * SC, 5 * SC, 7 * SC, 10 * SC>>,
                   <<850000, 700000, 550000, 400000, 250000>>)
        [] hazard_type = "flash_flood" ->
             Skill(<<SC, 3 * SC, 6 * SC, 12 * SC, 24 * SC>>,
                   <<700000, 550000, 400000, 250000, 150000>>)
        [] hazard_type = "cyclone" ->
             Skill(<<24 * SC, 48 * SC, 72 * SC, 96 * SC, 120 * SC>>,
                   <<800000, 700000, 550000, 450000, 350000>>)
        [] hazard_type = "storm_surge" ->
             Skill(<<6 * SC, 12 * SC, 24 * SC, 36 * SC, 48 * SC>>,
                   <<750000, 650000, 500000, 350000, 250000>>)
        [] hazard_type = "drought" ->
             Skill(<<500000, SC, 2 * SC, 3 * SC, 6 * SC>>,
                   <<650000, 550000, 450000, 350000, 250000>>)

\* forecast_accuracy from the base skill and the system capabilities
forecast_accuracy_of(base_forecast_skill, system_capabilities) ==
  LET technology_factor == Get(system_capabilities, "technology_level", 500000)
      training_factor == Get(system_capabilities, "staff_training", 500000)
      data_factor == Get(system_capabilities, "observation_network", 500000)
  IN  Clamp(100000, 950000,
            Mul(base_forecast_skill,
                700000 + Mul(100000, technology_factor)
                + Mul(100000, training_factor) + Mul(100000, data_factor)))

\* baseline casualty rates per 100,000 population
baseline_rates(hazard_type) ==
  CASE hazard_type = "cyclone" -> 50
    [] hazard_type = "flood" -> 20
    [] hazard_type = "flash_flood" -> 30
    [] hazard_type = "storm_surge" -> 40
    [] hazard_type = "drought" -> 5
    [] hazard_type = "landslide" -> 60
    [] hazard_type = "earthquake" -> 100
    [] OTHER -> 10

\* EarlyWarningModel._estimate_potential_casualties of the package, for
\* 100,000 exposed people. Up to an intensity of 10.7 the product is kept in
\* thousandths; above it the intensity factor is taken as a whole number so
\* that the square of a wind speed stays within 32 bits.
estimate_potential_casualties(hazard_type, hazard_intensity, region_type) ==
  LET base_rate == baseline_rates(hazard_type)
      region_factor ==
        CASE region_type = "coastal"
               /\ hazard_type \in {"cyclone", "storm_surge"} -> 1300000
          [] region_type = "hill_tracts" /\ hazard_type = "landslide" -> 1500000
          [] region_type = "urban"
               /\ hazard_type \in {"flood", "earthquake"} -> 1400000
          [] OTHER -> SC
      d == hazard_intensity - 700000
      hundredths == d \div 10000
  IN  CASE hazard_intensity <= 700000 ->
             Mul(Mul(base_rate * 1000,
                     IF hazard_intensity >= 0
                     THEN DivN(hazard_intensity, 700000)
                     ELSE -DivN(-hazard_intensity, 700000)),
                 region_factor) \div 1000
        [] hazard_intensity > 700000 /\ d <= 10 * SC ->
             Mul(Mul(base_rate * 1000, SC + 10 * Mul(d, d)), region_factor)
               \div 1000
        [] OTHER ->
             Mul(base_rate * (1 + (hundredths * hundredths) \div 1000),
                 region_factor)

\* the fraction of responders who avoid becoming a casualty (package)
PreventionCoefficient == 800000

\* the branch simulate_warning_process takes after the forecast
warning_branch(hazard_event, forecast_correct) ==
  CASE hazard_event.type \notin ForecastHazards -> "none"
    [] hazard_event.type \in ForecastHazards /\ forecast_correct -> "warning"
    [] hazard_event.type \in ForecastHazards /\ ~forecast_correct
         /\ hazard_event.intensity > 500000 -> "missed"
    [] OTHER -> "false_alarm"

\* dissemination_effectiveness of the branch: scaled by the regional
\* capacity when the forecast was correct, unscaled for a false alarm
dissemination_of(branch, region_type, base_dissemination) ==
  CASE branch = "warning" ->
         Mul(base_dissemination,
             500000 + Mul(500000, Get(regional_ews_capacity, region_type,
                                      500000)))
    [] branch = "false_alarm" -> base_dissemination
    [] OTHER -> 0

\* response_rate of the branch
response_rate_of(branch, hazard_event, lead_time, dissemination_effectiveness, system_capabilities) ==
  CASE branch = "warning" ->
         calculate_population_response(
           hazard_event.type, hazard_event.intensity, lead_time,
           dissemination_effectiveness,
           Get(hazard_event.spatial_footprint, "type", "generic"),
           system_capabilities)
    [] branch = "false_alarm" ->
         calculate_population_response(
           hazard_event.type, 100000, lead_time, dissemination_effectiveness,
           Get(hazard_event.spatial_footprint, "type", "generic"),
           system_capabilities)
    [] OTHER -> 0

\* lives_saved = potential_casualties * response_rate * 0.8
lives_saved_package(potential_casualties, response_rate) ==
  IntTimes(potential_casualties, Mul(response_rate, PreventionCoefficient))

\* the dictionary simulate_warning_process returns, and the
\* potential_casualties it estimated on the way
warning_result(hazard_event, branch, forecast_lead_time, forecast_accuracy, forecast_correct, dissemination_effectiveness, response_rate, potential_casualties) ==
  [warning_possible |-> branch # "none",
   forecast_lead_time |-> forecast_lead_time,
   forecast_accuracy |-> forecast_accuracy,
   warning_issued |-> branch \in {"warning", "false_alarm"},
   dissemination_effectiveness |-> dissemination_effectiveness,
   population_response_rate |-> response_rate,
   lives_saved |-> lives_saved_package(potential_casualties, response_rate),
   forecast_correct |-> forecast_correct,
   potential_casualties |-> potential_casualties]

\* the last steps of simulate_warning_process, from the dissemination on
warning_response(hazard_event, system_capabilities, branch, forecast_lead_time, forecast_accuracy, forecast_correct, dissemination_effectiveness) ==
  warning_result(
    hazard_event, branch, forecast_lead_time, forecast_accuracy,
    forecast_correct, dissemination_effectiveness,
    response_rate_of(branch, hazard_event, forecast_lead_time,
                     dissemination_effectiveness, system_capabilities),
    IF branch \in {"warning", "false_alarm"} /\ hazard_event.intensity > 300000
    THEN estimate_potential_casualties(
           hazard_event.type, hazard_event.intensity,
           Get(hazard_event.spatial_footprint, "type", "generic"))
    ELSE 0)

\* EarlyWarningModel.simulate_warning_process of the package, for the drawn
\* lead time and the outcome of the forecast_correct draw
SimulateWarningProcessPackage(hazard_event, system_capabilities, lead_time, forecast_correct) ==
  warning_response(
    hazard_event, system_capabilities,
    warning_branch(hazard_event, forecast_correct),
    IF hazard_event.type \in ForecastHazards THEN lead_time ELSE 0,
    IF hazard_event.type \in ForecastHazards
    THEN forecast_accuracy_of(
           forecast_skill_package(hazard_event.type, lead_time),
           system_capabilities)
    ELSE 0,
    forecast_correct,
    dissemination_of(
      warning_branch(hazard_event, forecast_correct),
      Get(hazard_event.spatial_footprint, "type", "generic"),
      calculate_dissemination_effectiveness(
        system_capabilities,
        Get(hazard_event.spatial_footprint, "type", "generic"),
        hazard_event.type)))

\* the dissemination systems the single file takes from system_capabilities,
\* in the order it tests them; all of them when none is switched on
available_systems_of(system_capabilities) ==
  LET on == SelectSeq(SystemNames, LAMBDA s : Flag(system_capabilities, s))
  IN  IF on = <<>> THEN SystemNames ELSE on

system_effectiveness_factor(system_capabilities) ==
  IF SelectSeq(SystemNames, LAMBDA s : Flag(system_capabilities, s)) = <<>>
  THEN 700000 ELSE SC

\* population_reached_by_system[system]
population_reached_by(system_capabilities, total_population, system_name) ==
  LET system_info == dissemination_systems[system_name]
      urban_ratio == Get(system_capabilities, "urban_population_ratio", 400000)
      rural_ratio == SC - urban_ratio
      urban_coverage == Mul(system_info.coverage, SC + system_info.urban_bias)
      rural_coverage == Mul(system_info.coverage, SC - system_info.urban_bias)
      system_coverage ==
        Clamp(0, SC, Mul(urban_coverage, urban_ratio)
                     + Mul(rural_coverage, rural_ratio))
      effective_coverage ==
        Mul(Mul(system_coverage, system_info.reliability),
            system_effectiveness_factor(system_capabilities))
  IN  IntTimes(total_population, effective_coverage)

RECURSIVE probability_unreached(_, _, _)
\* cumulative_probability_unreached over the systems
probability_unreached(system_capabilities, total_population, systems) ==
  IF systems = <<>> THEN SC
  ELSE Mul(SC - DivN(population_reached_by(system_capabilities,
                                           total_population, Head(systems)),
                     total_population),
           probability_unreached(system_capabilities, total_population,
                                 Tail(systems)))

RECURSIVE comprehension_sum(_)
comprehension_sum(systems) ==
  IF systems = <<>> THEN 0
  ELSE dissemination_systems[Head(systems)].comprehension
       + comprehension_sum(Tail(systems))

\* the lead time category of the single file
lead_time_category(hazard_type, forecast_lead_time) ==
  LET Category(a, b, c) ==
        CASE forecast_lead_time < a -> "very_short"
          [] forecast_lead_time >= a /\ forecast_lead_time < b -> "short"
          [] forecast_lead_time >= b /\ forecast_lead_time < c -> "adequate"
          [] OTHER -> "long"
  IN  IF hazard_type \in {"cyclone", "storm_surge", "flash_flood"}
      THEN Category(3 * SC, 12 * SC, 48 * SC)
      ELSE Category(125000, 500000, 2 * SC)

\* baseline_fatality_rate of the single file
baseline_fatality_rate(hazard_event) ==
  LET hazard_intensity == hazard_event.intensity
  IN  CASE hazard_event.type = "flood" ->
             100 + Mul(1000, Mul(hazard_intensity, hazard_intensity))
        [] hazard_event.type = "cyclone" ->
             Mul(100, Mul(hazard_intensity \div 100, hazard_intensity \div 100))
             + (IF "storm_surge" \in DOMAIN hazard_event
                THEN Mul(1000, Mul(hazard_event.storm_surge,
                                   hazard_event.storm_surge))
                ELSE 0)
        [] hazard_event.type = "flash_flood" ->
             500 + Mul(2000, Mul(hazard_intensity, hazard_intensity))
        [] OTHER -> Mul(100, hazard_intensity)

\* the share of the potential fatalities among evacuees that is prevented
\* (single file)
EvacueeEffectiveness == 900000

\* lives_saved = int(potential_fatalities * (evacuated / total) * 0.9)
lives_saved_of(potential_fatalities, evacuated_population, total_population) ==
  IntTimes(potential_fatalities,
           Mul(DivN(evacuated_population, total_population),
               EvacueeEffectiveness))

\* EarlyWarningModel.simulate_warning_process of the single file, for the
\* drawn lead time and the outcome of the comparison of the drawn forecast
\* probability with the warning threshold
SimulateWarningProcessSingleFile(hazard_event, system_capabilities, lead_time, warning_issued) ==
  LET hazard_type == hazard_event.type
      warning_possible == hazard_type \in ForecastHazards
      forecast_accuracy ==
        forecast_accuracy_of(forecast_skill_single_file(hazard_type, lead_time),
                             system_capabilities)
      available_systems == available_systems_of(system_capabilities)
      total_population ==
        Get(system_capabilities, "affected_population", 1000000)
      overall_probability_reached ==
        SC - probability_unreached(system_capabilities, total_population,
                                   available_systems)
      population_reached ==
        IntTimes(total_population, overall_probability_reached)
      avg_comprehension ==
        comprehension_sum(available_systems) \div Len(available_systems)
      effective_comprehension ==
        Clamp(200000, 950000,
              Mul(avg_comprehension,
                  700000
                  + Mul(150000, Get(system_capabilities, "message_clarity",
                                    500000))
                  + Mul(150000, Get(system_capabilities, "message_consistency",
                                    500000))))
      population_informed == IntTimes(population_reached, effective_comprehension)
      eb == evacuation_behavior
      lead_time_factor ==
        eb.warning_lead_time_factor[lead_time_category(hazard_type, lead_time)]
      specificity ==
        CASE Flag(system_capabilities, "impact_based_forecasting") ->
               "impact_based"
          [] ~Flag(system_capabilities, "impact_based_forecasting")
               /\ Flag(system_capabilities, "location_specific_warnings") ->
               "location_specific"
          [] OTHER -> "generic"
      experience_factor ==
        eb.previous_experience[Get(system_capabilities, "previous_experience",
                                   "none")]
      evacuation_rate ==
        Clamp(50000, 950000,
              Mul(Mul(Mul(eb.compliance_base_rate, lead_time_factor),
                      eb.warning_specificity_factor[specificity]),
                  experience_factor))
      evacuated_population == IntTimes(population_informed, evacuation_rate)
      potential_fatalities ==
        IntTimes(total_population, baseline_fatality_rate(hazard_event))
      lives_saved ==
        lives_saved_of(potential_fatalities, evacuated_population,
                       total_population)
  IN  CASE ~warning_possible ->
             [warning_issued |-> FALSE, lead_time |-> 0,
              population_reached |-> 0, evacuation_rate |-> 0,
              lives_saved |-> 0]
        [] warning_possible /\ ~warning_issued ->
             [warning_issued |-> FALSE, lead_time |-> lead_time,
              population_reached |-> 0, evacuation_rate |-> 0,
              lives_saved |-> 0]
        [] OTHER ->
             [warning_issued |-> TRUE,
              forecast_lead_time |-> lead_time,
              forecast_accuracy |-> forecast_accuracy,
              hazard_type |-> hazard_type,
              hazard_intensity |-> hazard_event.intensity,
              total_population |-> total_population,
              population_reached |-> population_reached,
              population_informed |-> population_informed,
              evacuation_rate |-> evacuation_rate,
              evacuated_population |-> evacuated_population,
              potential_fatalities |-> potential_fatalities,
              lives_saved |-> lives_saved]


Operations == {"rescue", "evacuation", "relief", "medical", "restoration"}

\* self.response_effectiveness
response_effectiveness ==
  [flood |-> [rescue |-> 700000, evacuation |-> 600000, relief |-> 600000,
              medical |-> 500000, restoration |-> 500000],
   cyclone |-> [rescue |-> 600000, evacuation |-> 700000, relief |-> 600000,
                medical |-> 500000, restoration |-> 400000],
   flash_flood |-> [rescue |-> 500000, evacuation |-> 400000, relief |-> 500000,
                    medical |-> 500000, restoration |-> 600000],
   landslide |-> [rescue |-> 400000, evacuation |-> 300000, relief |-> 400000,
                  medical |-> 400000, restoration |-> 500000],
   earthquake |-> [rescue |-> 300000, evacuation |-> 400000, relief |-> 500000,
                   medical |-> 400000, restoration |-> 300000],
   drought |-> [rescue |-> 800000, evacuation |-> 700000, relief |-> 600000,
                medical |-> 600000, restoration |-> 400000]]

\* self.logistics_parameters['transportation_disruption']
transportation_disruption ==
  [flood |-> 700000, cyclone |-> 600000, earthquake |-> 800000,
   landslide |-> 700000, drought |-> 200000]

\* self.response_agencies['ngos']['regional_capacity'] by region_type
regional_factor_of(region_type) ==
  CASE region_type = "coastal" -> 800000
    [] region_type = "riverine" -> 600000
    [] region_type = "urban" -> 700000
    [] region_type = "haor" -> 500000
    [] region_type = "hill_tracts" -> 400000
    [] OTHER -> 600000

coordination_effectiveness ==
  [inter_agency |-> 600000, govt_ngo |-> 500000, national_local |-> 500000,
   civil_military |-> 700000, international |-> 600000]

\* EmergencyResponseModel._calculate_resource_adequacy
calculate_resource_adequacy(available_resources) ==
  [rescue |-> Get(available_resources, "rescue_adequacy", 600000),
   evacuation |-> Get(available_resources, "evacuation_adequacy", 600000),
   relief |-> Get(available_resources, "relief_adequacy", 600000),
   medical |-> Get(available_resources, "medical_adequacy", 600000),
   restoration |-> Get(available_resources, "restoration_adequacy", 600000)]

\* the weighted score of one operation without the bound to [0.05, 0.95]
adjusted_effectiveness_unbounded(base_value, regional_factor, adequacy, coordination, transport_disruption) ==
  Mul(base_value,
      400000 + Mul(200000, regional_factor) + Mul(200000, adequacy)
      + Mul(100000, coordination) + Mul(100000, SC - transport_disruption))

\* adjusted_effectiveness of one operation
adjusted_effectiveness(base_value, regional_factor, adequacy, coordination, transport_disruption) ==
  Clamp(50000, 950000,
        Mul(base_value,
            400000 + Mul(200000, regional_factor) + Mul(200000, adequacy)
            + Mul(100000, coordination)
            + Mul(100000, SC - transport_disruption)))

\* the gap measured from the upper bound of the effectiveness
response_gap_to_bound(effectiveness) == Max(0, 950000 - effectiveness)

\* response_gaps[operation] = max(0, 1.0 - effectiveness)
response_gap(effectiveness) == Max(0, SC - effectiveness)

\* the share of the deaths a full rescue effectiveness would save
RescueCoefficient == 300000

\* EmergencyResponseModel.simulate_response(disaster_impacts,
\* available_resources)
SimulateResponse(disaster_impacts, available_resources) ==
  LET hazard_type == Get(disaster_impacts, "hazard_type", "flood")
      region_type == Get(disaster_impacts, "region_type", "generic")
      casualty_counts == Get(disaster_impacts, "casualties", [k \in {} |-> 0])
      affected_population ==
        IF Get(casualty_counts, "affected", 0) = 0
        THEN SumOver(casualty_counts) ELSE casualty_counts.affected
      base_effectiveness_by_operation ==
        Get(response_effectiveness, hazard_type, response_effectiveness.flood)
      transport_disruption == Get(transportation_disruption, hazard_type, 500000)
      regional_factor == regional_factor_of(region_type)
      coordination ==
        Mul(coordination_effectiveness.inter_agency, 200000)
        + Mul(coordination_effectiveness.govt_ngo, 200000)
        + Mul(coordination_effectiveness.national_local, 200000)
        + Mul(coordination_effectiveness.civil_military, 200000)
        + Mul(coordination_effectiveness.international, 200000)
      resource_adequacy == calculate_resource_adequacy(available_resources)
      response_results ==
        [op \in DOMAIN base_effectiveness_by_operation |->
           adjusted_effectiveness(base_effectiveness_by_operation[op],
                                  regional_factor, resource_adequacy[op],
                                  coordination, transport_disruption)]
      potential_fatalities == Get(casualty_counts, "deaths", 0)
      displaced_population == Get(casualty_counts, "displaced", 0)
      shelter_capacity == Get(available_resources, "shelter_capacity", 2500000)
  IN  [response_effectiveness |-> response_results,
       response_gaps |->
         [op \in DOMAIN response_results |-> response_gap(response_results[op])],
       coordination_effectiveness |-> coordination,
       transport_disruption |-> transport_disruption,
       resource_adequacy |-> resource_adequacy,
       additional_lives_saved |->
         IntTimes(potential_fatalities,
                  Mul(Get(response_results, "rescue", 500000),
                      RescueCoefficient)),
       shelter_access_ratio |->
         IF shelter_capacity >= Max(1, displaced_population) THEN SC
         ELSE DivN(shelter_capacity, Max(1, displaced_population)),
       affected_population |-> affected_population]

\* hazard events as generate_events builds them: type, intensity, spatial
\* footprint and the attributes of the hazard type (depth and duration in
\* days for a flood, wind speed and storm surge for a cyclone, none for
\* the type 'geophysical', which the response tables do not list)
WarningEvents ==
  {[type |-> "flood", intensity |-> d, depth |-> d, duration |-> dur,
    spatial_footprint |->
      [type |-> "riverine",
       affected_rivers |-> <<"brahmaputra", "ganges", "meghna">>]] :
     d \in {250000, 2 * SC, 4684000}, dur \in {SC, 15 * SC}}
  \cup {[type |-> "cyclone", intensity |-> w, wind_speed |-> w,
         storm_surge |-> Mul(60000, w),
         spatial_footprint |->
           [type |-> "coastal",
            affected_coast |-> <<"chittagong", "khulna", "barisal">>]] :
          w \in {150 * SC, 189078000}}
  \cup {[type |-> t, intensity |-> 2151000,
         spatial_footprint |-> [type |-> "generic", coverage |-> "national"]] :
          t \in {"drought", "landslide", "geophysical"}}

\* system_capabilities handed to simulate_warning_process: the empty
\* dictionary of the orchestrator, and two equipped systems
WarningCapabilities ==
  {[k \in {} |-> 0],
   [affected_population |-> 1000, sms |-> TRUE, radio |-> TRUE,
    impact_based_forecasting |-> TRUE, previous_experience |-> "major_impact",
    warning_specificity |-> "impact_based",
    available_systems |-> <<"sirens", "sms", "television">>],
   [affected_population |-> 500000, mosque_announcements |-> TRUE,
    location_specific_warnings |-> TRUE, technology_level |-> 900000,
    literacy_rate |-> 400000]}

\* available_resources handed to simulate_response
ResponseResources ==
  {[k \in {} |-> 0],
   [rescue_adequacy |-> 0, shelter_capacity |-> 100],
   [rescue_adequacy |-> 30 * SC, relief_adequacy |-> SC]}

\* exposed elements of the warned event: people and buildings, with no
\* facilities and no crops
WarningExposures ==
  {[population |-> p,
    buildings |->
      [RCC |-> 150, semi_pucca |-> 250, kutcha |-> 500, jhupri |-> 100],
    critical_infrastructure |-> [k \in {} |-> 0],
    agriculture |-> [k \in {} |-> 0]] : p \in DamagePopulations}

WarnInit ==
  \E ev \in WarningEvents, ex \in WarningExposures,
     caps \in WarningCapabilities, res \in ResponseResources :
    /\ dmg = [hazard_event |-> ev, exposed_elements |-> ex, damages |-> <<>>]
    /\ warn = [function |-> "none", hazard_event |-> ev,
               system_capabilities |-> caps, outcome |-> <<>>]
    /\ resp = [available_resources |-> res, disaster_impacts |-> <<>>,
               outcome |-> <<>>]

\* the draws of one simulate_warning_process call
LeadTimeDraws == lead_time_choices(warn.hazard_event)

\* a call simulate_warning_process(hazard_event, system_capabilities) of the
\* package; forecast_correct is random() < forecast_accuracy. The calls of
\* one event come in the order of the pipeline: damages, warning, response.
simulate_warning_process ==
  /\ dmg.damages # <<>>
  /\ warn.function = "none"
  /\ \E lead_time \in LeadTimeDraws :
       \E forecast_correct \in
            (IF warn.hazard_event.type \in ForecastHazards
             THEN BOOLEAN ELSE {FALSE}) :
         warn' = [warn EXCEPT
                    !.function = "package",
                    !.outcome =
                      <<SimulateWarningProcessPackage(
                          warn.hazard_event, warn.system_capabilities,
                          lead_time, forecast_correct)>>]
  /\ UNCHANGED <<gen, expo, dmg, rec, run, orch, repro, clim, resp>>

\* the same call on the single file; warning_issued is the comparison of the
\* Beta draw with the warning threshold
simulate_warning_process_single_file ==
  /\ dmg.damages # <<>>
  /\ warn.function = "none"
  /\ \E lead_time \in LeadTimeDraws, warning_issued \in BOOLEAN :
       warn' = [warn EXCEPT
                  !.function = "single_file",
                  !.outcome =
                    <<SimulateWarningProcessSingleFile(
                        warn.hazard_event, warn.system_capabilities,
                        lead_time, warning_issued)>>]
  /\ UNCHANGED <<gen, expo, dmg, rec, run, orch, repro, clim, resp>>

\* the disaster_impacts a caller can build from the damages of the event:
\* the dictionary calculate_damages returned, or its casualties with the
\* hazard type and the region type of the event added
ImpactsOf(damages, hazard_event) ==
  {damages,
   [casualties |-> damages.casualties, hazard_type |-> hazard_event.type,
    region_type |-> hazard_event.spatial_footprint.type]}

\* a call simulate_response(disaster_impacts, available_resources) on the
\* damages of the event
simulate_response ==
  /\ dmg.damages # <<>>
  /\ warn.function # "none"
  /\ resp.outcome = <<>>
  /\ \E impacts \in ImpactsOf(dmg.damages[1], dmg.hazard_event) :
       resp' = [resp EXCEPT
                  !.disaster_impacts = <<impacts>>,
                  !.outcome =
                    <<SimulateResponse(impacts, resp.available_resources)>>]
  /\ UNCHANGED <<gen, expo, dmg, rec, run, orch, repro, clim, warn>>

WarningInit ==
  /\ WarnInit
  /\ gen = Idle /\ expo = Idle /\ rec = Idle
  /\ run = Idle /\ orch = Idle /\ repro = Idle /\ clim = Idle

WarningNext ==
  \/ calculate_damages
  \/ simulate_warning_process
  \/ simulate_warning_process_single_file
  \/ simulate_response

SpecWarning == WarningInit /\ [][WarningNext]_vars


\* the potential fatalities a warning outcome was derived from: the
\* estimate of the package, the potential_fatalities entry of the single
\* file, and none when the single file returned before estimating them
PotentialFatalities(outcome) ==
  CASE "potential_casualties" \in DOMAIN outcome -> outcome.potential_casualties
    [] "potential_fatalities" \in DOMAIN outcome -> outcome.potential_fatalities
    [] OTHER -> 0

\* C18: lives saved never exceed the fatalities they are derived from: the
\* lives_saved of a warning outcome is at most the potential fatalities
\* estimated for that warning, and the additional_lives_saved of
\* simulate_response is non-negative and at most the deaths count of the
\* damage assessment it was given.
C18_LivesSavedWithinFatalities ==
  /\ warn.outcome # <<>> =>
       warn.outcome[1].lives_saved <= PotentialFatalities(warn.outcome[1])
  /\ resp.outcome # <<>> =>
       /\ resp.outcome[1].additional_lives_saved >= 0
       /\ resp.outcome[1].additional_lives_saved
            <= resp.disaster_impacts[1].casualties.deaths

\* a warning that saved some but not all of the potential fatalities,
\* followed by a response that saved further lives
C18_Witness ==
  /\ warn.outcome # <<>>
  /\ warn.outcome[1].lives_saved > 0
  /\ warn.outcome[1].lives_saved < PotentialFatalities(warn.outcome[1])
  /\ resp.outcome # <<>>
  /\ resp.outcome[1].additional_lives_saved > 0
  /\ resp.available_resources = [rescue_adequacy |-> 30 * SC, relief_adequacy |-> SC]

\* C19: for one hazard event, the lives_saved count of the warning outcome
\* is at most the deaths count of the damage assessment computed for that
\* same event.
C19_LivesSavedWithinAssessedDeaths ==
  (warn.outcome # <<>> /\ dmg.damages # <<>>) =>
    warn.outcome[1].lives_saved <= dmg.damages[1].casualties.deaths

\* the response rate a warning outcome reports: population_response_rate in
\* the package, the evacuated share of the population in the single file
ReportedResponseRate(outcome) ==
  CASE "population_response_rate" \in DOMAIN outcome ->
         outcome.population_response_rate
    [] "evacuated_population" \in DOMAIN outcome ->
         DivN(outcome.evacuated_population, outcome.total_population)
    [] OTHER -> 0

\* C20: in the warning outcome, lives saved equals the potential baseline
\* fatalities times the population response rate times the fixed
\* effectiveness coefficient 0.9, rounded down to an integer.
C20_LivesSavedFormula ==
  warn.outcome # <<>> =>
    warn.outcome[1].lives_saved
      = IntTimes(PotentialFatalities(warn.outcome[1]),
                 Mul(ReportedResponseRate(warn.outcome[1]), 900000))

\* the single file alone does follow the formula of C20
C20_SingleFileFollowsFormula ==
  (warn.outcome # <<>> /\ warn.function = "single_file") =>
    warn.outcome[1].lives_saved
      = IntTimes(PotentialFatalities(warn.outcome[1]),
                 Mul(ReportedResponseRate(warn.outcome[1]), 900000))


\* the effectiveness of every operation scored with the base rates and the
\* transport disruption of hazard type h
ScoredAs(h, impacts, available_resources) ==
  [op \in Operations |->
     adjusted_effectiveness(
       Get(response_effectiveness, h, response_effectiveness.flood)[op],
       regional_factor_of(Get(impacts, "region_type", "generic")),
       calculate_resource_adequacy(available_resources)[op],
       \* the coordination score 0.58 of the five coordination entries
       580000,
       Get(transportation_disruption, h, 500000))]

\* C27: simulate_response, applied to the damage assessment calculate_damages
\* produced for an event of hazard type H, scores every operation with H's
\* own base effectiveness rates and H's own transport-disruption factor.
C27_ScoredWithOwnHazardRates ==
  (resp.outcome # <<>> /\ resp.disaster_impacts[1] = dmg.damages[1]) =>
    /\ resp.outcome[1].transport_disruption
         = Get(transportation_disruption, dmg.hazard_event.type, 500000)
    /\ resp.outcome[1].response_effectiveness
         = ScoredAs(dmg.hazard_event.type, resp.disaster_impacts[1],
                    resp.available_resources)

\* what the code does instead: the assessment carries no hazard type, so
\* every assessment is scored with the flood rates
C27_AlwaysScoredAsFlood ==
  (resp.outcome # <<>> /\ resp.disaster_impacts[1] = dmg.damages[1]) =>
    /\ resp.outcome[1].transport_disruption = transportation_disruption.flood
    /\ resp.outcome[1].response_effectiveness
         = ScoredAs("flood", resp.disaster_impacts[1],
                    resp.available_resources)

\* the assessment of a cyclone scored with the flood rates
CycloneScoredAsFlood ==
  /\ resp.outcome # <<>>
  /\ resp.disaster_impacts[1] = dmg.damages[1]
  /\ dmg.hazard_event.type = "cyclone"
  /\ resp.available_resources = [k \in {} |-> 0]
  /\ resp.outcome[1].transport_disruption = 700000
  /\ resp.outcome[1].response_effectiveness["rescue"]
       # ScoredAs("cyclone", resp.disaster_impacts[1],
                  resp.available_resources)["rescue"]


\* C28: for every hazard type, one without a table entry included, and
\* every caller-supplied resource availability, simulate_response returns an
\* effectiveness for exactly the five operations rescue, evacuation, relief,
\* medical and restoration, each in [0.05, 0.95], and a response gap for
\* each operation equal to 1 - its effectiveness.
C28_FiveBoundedOperationsAndGaps ==
  resp.outcome # <<>> =>
    LET r == resp.outcome[1]
    IN  /\ DOMAIN r.response_effectiveness = Operations
        /\ DOMAIN r.response_gaps = Operations
        /\ \A op \in Operations :
             /\ r.response_effectiveness[op] >= 50000
             /\ r.response_effectiveness[op] <= 950000
             /\ r.response_gaps[op] = SC - r.response_effectiveness[op]
        /\ (Get(resp.disaster_impacts[1], "hazard_type", "flood")
              \notin DOMAIN response_effectiveness) =>
             r.response_effectiveness
               = [op \in Operations |->
                    adjusted_effectiveness(
                      response_effectiveness.flood[op],
                      regional_factor_of(
                        Get(resp.disaster_impacts[1], "region_type", "generic")),
                      r.resource_adequacy[op], r.coordination_effectiveness,
                      r.transport_disruption)]

\* a response to a hazard type without a table entry, with a rescue
\* adequacy of 30 that drives the rescue effectiveness to the upper bound
C28_Witness ==
  /\ resp.outcome # <<>>
  /\ "hazard_type" \in DOMAIN resp.disaster_impacts[1]
  /\ resp.disaster_impacts[1].hazard_type = "geophysical"
  /\ resp.available_resources
       = [rescue_adequacy |-> 30 * SC, relief_adequacy |-> SC]
  /\ resp.outcome[1].response_effectiveness["rescue"] = 950000
  /\ resp.outcome[1].response_gaps["rescue"] = 50000
  /\ resp.outcome[1].response_effectiveness["medical"] \in 50001..949999


\* the outcome of the warning process, whichever implementation produced it
WarningOutcomeRecorded == warn.function # "none" /\ warn.outcome # <<>>

\* the evacuation (population response) rate an outcome reports
OutcomeResponseRate(o) ==
  IF "population_response_rate" \in DOMAIN o THEN o.population_response_rate
  ELSE o.evacuation_rate

\* the forecast of the outcome was missed: the package records the draw in
\* forecast_correct, the single file has no forecast draw
ForecastMissed(o) ==
  "forecast_correct" \in DOMAIN o /\ o.warning_possible /\ ~o.forecast_correct

\* C29: when the hazard type has no warning system, or the forecast is
\* missed, or the warning is not issued, the outcome of the warning process
\* has warning_issued = false, a population response (evacuation) rate of 0
\* and lives_saved = 0
C29_NoWarningNoResponse ==
  WarningOutcomeRecorded =>
    LET o == warn.outcome[1]
    IN  (warn.hazard_event.type \notin ForecastHazards \/ ForecastMissed(o)
           \/ ~o.warning_issued)
          => /\ ~o.warning_issued
             /\ OutcomeResponseRate(o) = 0
             /\ o.lives_saved = 0

\* without the clause on the missed forecast the two implementations agree:
\* an outcome with warning_issued = false has rate 0 and lives_saved 0
C29_NotIssuedNoResponse ==
  WarningOutcomeRecorded =>
    LET o == warn.outcome[1]
    IN  (warn.hazard_event.type \notin ForecastHazards \/ ~o.warning_issued)
          => /\ ~o.warning_issued
             /\ OutcomeResponseRate(o) = 0
             /\ o.lives_saved = 0

\* the package has missed the forecast of a weak flood and warned anyway
\* (its false alarm), and part of the population responded
MissedForecastWarned ==
  /\ WarningOutcomeRecorded
  /\ warn.function = "package"
  /\ ForecastMissed(warn.outcome[1])
  /\ warn.outcome[1].warning_issued
  /\ warn.outcome[1].population_response_rate > 0

\* C30: simulate_recovery returns a result without raising for every damage
\* assessment calculate_damages produces, the assessment with zero direct
\* and indirect losses (needed funding 0) included, and the funding ratio
\* it reports is a number
C30_RecoveryNeverRaises ==
  rec.result # <<>> =>
    /\ rec.result[1].status = "returned"
    /\ ~rec.result[1].funding_ratio_is_nan

\* with funding needs above zero the call does return, and with a number
\* for the funding ratio
C30_ReturnsWhenNeedsPositive ==
  (rec.result # <<>> /\ estimate_funding_needs(dmg.damages[1]) > 0)
    => ReturnedFunded

\* the assessment of an event that damaged nothing (needed funding 0) has
\* made available_funding / funding_needs divide by zero
ZeroNeedsRaised ==
  /\ rec.result = <<Raised>>
  /\ estimate_funding_needs(dmg.damages[1]) = 0

\* the same assessment with numpy floats: the call returned, its funding
\* ratio being nan
ZeroNeedsReturnedNan ==
  /\ Returned
  /\ rec.result[1].funding_ratio_is_nan
  /\ estimate_funding_needs(dmg.damages[1]) = 0

====
